---- MODULE Spec2Model ----
(***************************************************************************)
(* ShopHelper backend: the chat pipeline (intent -> preference extraction  *)
(* and merge -> catalog filter -> response) and the session store it       *)
(* mutates.                                                                *)
(*                                                                         *)
(* Conventions of the model                                                *)
(*  - Python None is the string "None".                                    *)
(*  - A text is a sequence of words.  The Japanese words of the source     *)
(*    are written with ASCII names (the original is given where the word   *)
(*    is introduced); `k in text` (substring search) is decided by         *)
(*    IsSubstring, a table of the substring relation between the real      *)
(*    strings, never by the ASCII names.                                   *)
(*  - A list the code only builds with list(set(...)) and only reads with  *)
(*    `in` is the set of its elements.                                     *)
(*  - Ratings are in tenths (4.7 is 47).                                   *)
(***************************************************************************)
EXTENDS Integers, Sequences, FiniteSets, TLC

VARIABLES
    sessions,   \* SessionManager.sessions: session id -> session data or NoSession
    pc,         \* per chat request: where the handler `chat` stands
    req,        \* per chat request: its inputs, locals and response
    running,    \* the request whose coroutine holds the event loop, or Idle
    now,        \* the clock datetime.now(), in hours
    fn          \* inputs and outputs of the function under test (SpecPure, ...)

vars == <<sessions, pc, req, running, now, fn>>

None == "None"

Range(s) == {s[i] : i \in 1..Len(s)}

(***************************************************************************)
(* Text utilities (utils/helpers.py)                                       *)
(***************************************************************************)

\* str.lower() on the words that occur with capitals; other words of the
\* model are lower case already and lower() leaves them as they are.
lower(w) ==
    CASE w = "Nike" -> "nike"
      [] w = "Apple" -> "apple"
      [] w = "Sony" -> "sony"
      [] w = "Samsung" -> "samsung"
      [] w = "Dell" -> "dell"
      [] w = "Uniqlo" -> "uniqlo"
      [] w = "iPhone" -> "iphone"
      [] w = "MacBook" -> "macbook"
      [] w = "Air" -> "air"
      [] w = "Max" -> "max"
      [] w = "Galaxy" -> "galaxy"
      [] w = "XPS" -> "xps"
      [] w = "S24" -> "s24"
      [] w = "M2" -> "m2"
      [] w = "Python" -> "python"
      [] w = "PC" -> "pc"
      [] w = "Panasonic" -> "panasonic"
      [] w = "Sharp" -> "sharp"
      [] w = "Toshiba" -> "toshiba"
      [] w = "Adidas" -> "adidas"
      [] w = "Zara" -> "zara"
      [] w = "H&M" -> "h&m"
      [] w = "H&amp;M" -> "h&amp;m"
      [] w = "LG" -> "lg"
      [] w = "Canon" -> "canon"
      [] w = "Nikon" -> "nikon"
      [] w = "Fujifilm" -> "fujifilm"
      [] w = "Hello" -> "hello"
      [] OTHER -> w

\* The proper-substring relation between the lower-case strings of the model
\* (<<a, b>>: a occurs inside b and a # b).
\*   "kouhinshitsu" is 高品質, which contains 品質 ("hinshitsu");
\*   "kouhyouka" is 高評価; "toshiba" contains "hi"; "python..." is one word
\*   in the catalog (Pythonプログラミング入門) and contains "python".
ProperSubstrings ==
    { <<"hinshitsu", "kouhinshitsu">>,
      <<"hi", "toshiba">>,
      <<"ka", "desuka">>,
      <<"ka", "deshouka">>,
      <<"bye", "goodbye">>,
      <<"python", "python-programming-nyuumon">>,
      <<"python", "shoshinsha-muke-python-programming-hon">>,
      <<"iphone", "saishin-no-iphone">>,
      <<"nike", "kaiteki-na-nike-sneaker">>,
      <<"samsung", "samsung-no-saishin-flagship">>,
      <<"macbook", "keiryou-de-kouseinou-na-macbook">>,
      <<"m2", "m2-chip-tousai">>,
      <<"pc", "business-muke-note-pc">>,
      <<"down-jacket", "keiryou-de-atatakai-down-jacket">>,
      <<"xyz", "xyz-nonexistent">>,
      <<"nonexistent", "xyz-nonexistent">> }

\* a in b, for two strings
IsSubstring(a, b) == a = b \/ <<a, b>> \in ProperSubstrings

\* q in text.lower(), for a one-word q and a text given as its words
TextContains(text, q) == \E i \in 1..Len(text) : IsSubstring(q, lower(text[i]))

(***************************************************************************)
(* The catalog (ProductSearchAgent._initialize_mock_products)              *)
(***************************************************************************)

\* A description is the sequence of its \w-runs (the words between spaces and
\* the Japanese full stop); a run that holds Latin letters inside Japanese
\* text is one word, whose Latin part is named in ProperSubstrings.
mock_products ==
    << [id |-> "phone_001", name |-> <<"iPhone", "15">>, price |-> 120000,
        description |-> <<"saishin-no-iphone", "15", "kouseinou-camera-to-battery">>,
        category |-> "electronics", brand |-> "Apple", rating |-> 48,
        features |-> {"5G", "wireless", "waterproof"}],
       [id |-> "phone_002", name |-> <<"Samsung", "Galaxy", "S24">>, price |-> 110000,
        description |-> <<"samsung-no-saishin-flagship", "kouseinou-processor-to-display">>,
        category |-> "electronics", brand |-> "Samsung", rating |-> 46,
        features |-> {"5G", "wireless", "waterproof"}],
       [id |-> "laptop_001", name |-> <<"MacBook", "Air", "M2">>, price |-> 180000,
        description |-> <<"keiryou-de-kouseinou-na-macbook", "Air", "m2-chip-tousai">>,
        category |-> "electronics", brand |-> "Apple", rating |-> 49,
        features |-> {"lightweight", "wireless", "high_speed"}],
       [id |-> "laptop_002", name |-> <<"Dell", "XPS", "13">>, price |-> 160000,
        description |-> <<"business-muke-note-pc", "keiryou-de-mochihakobi-yasui">>,
        category |-> "electronics", brand |-> "Dell", rating |-> 45,
        features |-> {"lightweight", "compact", "high_speed"}],
       [id |-> "clothing_001", name |-> <<"Nike", "Air", "Max", "270">>, price |-> 15000,
        description |-> <<"kaiteki-na-nike-sneaker", "stylish-na-design">>,
        category |-> "clothing", brand |-> "Nike", rating |-> 47,
        features |-> {"comfortable", "stylish", "lightweight"}],
       [id |-> "clothing_002", name |-> <<"Uniqlo", "down-jacket">>, price |-> 8000,
        description |-> <<"keiryou-de-atatakai-down-jacket", "simple-de-tsukaiyasui-design">>,
        category |-> "clothing", brand |-> "Uniqlo", rating |-> 44,
        features |-> {"lightweight", "warm", "compact"}],
       [id |-> "book_001", name |-> <<"python-programming-nyuumon">>, price |-> 2500,
        description |-> <<"shoshinsha-muke-python-programming-hon", "wakariyasui-kaisetsu-tsuki">>,
        category |-> "books", brand |-> "gijutsu-hyouronsha", rating |-> 46,
        features |-> {"educational", "beginner_friendly"}],
       [id |-> "food_001", name |-> <<"yuuki-yasai-set">>, price |-> 3000,
        description |-> <<"shinsen-na-yuuki-yasai-no-set", "kenkou-ni-yoi-shokuzai">>,
        category |-> "food", brand |-> "organic-farm", rating |-> 43,
        features |-> {"organic", "fresh", "healthy"}] >>

(***************************************************************************)
(* Preferences (UserPreferenceAgent)                                       *)
(***************************************************************************)

PrefKeys == {"price_range", "quality", "brands", "categories",
             "keywords", "features", "excluded_items"}

\* The keys _merge_preferences unions (line 293); every other key is overwritten.
ListKeys == {"brands", "categories", "features", "excluded_items"}

\* session_data["user_preferences"] = {}: no key is set.  A key that is not
\* set reads as None (scalars) or [] (lists) through dict.get.
EmptyPreferences ==
    [price_range |-> None, quality |-> None, brands |-> {}, categories |-> {},
     keywords |-> {}, features |-> {}, excluded_items |-> {}]

ScalarKeys == {"price_range", "quality"}

\* `value is not None and value != []` (line 292), for the value of `key`
IsSet(key, value) == IF key \in ScalarKeys THEN value # None ELSE value # {}

\* A merge that keeps only the incoming values not stored yet.
MergeListFresh(existing_list, value) == value \ existing_list

\* A merge that drops what both lists hold.
MergeListToggle(existing_list, value) ==
    (existing_list \cup value) \ (existing_list \cap value)

\* list(set(existing_list + value))
MergeList(existing_list, value) == existing_list \cup value

\* A merge in which a scalar that is set is never replaced.
MergeKeyKeepFirst(key, old, value) ==
    IF IsSet(key, value)
    THEN IF key \in ListKeys
         THEN MergeList(old, value)
         ELSE IF IsSet(key, old) THEN old ELSE value
    ELSE old

\* One iteration of the loop of _merge_preferences: `value` is new[key].
MergeKey(key, old, value) ==
    IF IsSet(key, value)
    THEN IF key \in ListKeys
         THEN MergeList(old, value)
         ELSE value
    ELSE old

_merge_preferences(existing, new) ==
    [key \in PrefKeys |-> MergeKey(key, existing[key], new[key])]

(***************************************************************************)
(* sanitize_input and extract_keywords (utils/helpers.py)                  *)
(***************************************************************************)

\* re.sub(r'<[^>]+>', '', text): the words that are HTML tags
HtmlTagWords == {"<b>", "</b>"}

\* The replace() chain of sanitize_input on one word: & < > " ' are escaped.
escape(w) ==
    CASE w = "H&M" -> "H&amp;M"
      [] OTHER -> w

sanitize_input(text) ==
    LET kept == SelectSeq(text, LAMBDA w : w \notin HtmlTagWords)
    IN  [i \in 1..Len(kept) |-> escape(kept[i])]

stop_words == {"no", "ni", "wa", "wo", "ga", "de", "to", "kara", "made",
               "desu", "masu", "kudasai", "onegai", "arigatou",
               "the", "a", "an", "and", "or", "but", "in", "on", "at", "for"}

\* Words whose original is one character (服, 本): len(word) > 1 drops them.
OneCharWords == {"fuku", "hon", "a", "?"}

\* re.findall(r'\b\w+\b', word): the \w-runs of one lower-case word
WordRuns(w) ==
    CASE w = "xyz-nonexistent" -> {"xyz", "nonexistent"}
      [] w = "h&amp;m" -> {"h", "amp", "m"}
      [] w = "h&m" -> {"h", "m"}
      [] w = "?" -> {}
      [] OTHER -> {w}

extract_keywords(text) ==
    LET words == UNION {WordRuns(lower(text[i])) : i \in 1..Len(text)}
    IN  {word \in words : word \notin stop_words
                          /\ word \notin OneCharWords \cup {"h", "m"}}

(***************************************************************************)
(* Preference extraction (UserPreferenceAgent)                             *)
(***************************************************************************)

\* The value of the first entry of an insertion-ordered table whose key hits.
FirstHit(table, hit(_)) ==
    LET idx == {i \in 1..Len(table) : hit(table[i][1])}
    IN  IF idx = {} THEN None
        ELSE table[CHOOSE i \in idx : \A j \in idx : i <= j][2]

\* 安い 安価 高価 高い 格安 激安 高級 プレミアム
price_keywords ==
    << <<"yasui", "low">>, <<"anka", "low">>, <<"kouka", "high">>,
       <<"takai", "high">>, <<"kakuyasu", "very_low">>, <<"gekiyasu", "very_low">>,
       <<"koukyuu", "very_high">>, <<"premium", "very_high">> >>

\* (\d+)円以下 (\d+)万円以下 (\d+)円以上 (\d+)万円以上 (\d+)円〜(\d+)円 (\d+)万円〜(\d+)万円
price_patterns ==
    << <<"N-en-ika", "low">>, <<"N-man-en-ika", "low">>,
       <<"N-en-ijou", "high">>, <<"N-man-en-ijou", "high">>,
       <<"N-en-kara-N-en", "medium">>, <<"N-man-en-kara-N-man-en", "medium">> >>

\* re.search(pattern, word) for the words of the model that hold a price:
\* 5000円以下 and 10万円以上.
RegexMatches ==
    { <<"N-en-ika", "5000-en-ika">>, <<"N-man-en-ijou", "10-man-en-ijou">> }

_extract_price_preference(message) ==
    LET byKeyword == FirstHit(price_keywords, LAMBDA k : TextContains(message, k))
    IN  IF byKeyword # None THEN byKeyword
        ELSE FirstHit(price_patterns,
                      LAMBDA pat : \E i \in 1..Len(message) :
                                      <<pat, message[i]>> \in RegexMatches)

\* 高品質 品質 良質 上質 高評価 人気
quality_keywords ==
    << <<"kouhinshitsu", "high">>, <<"hinshitsu", "medium">>, <<"ryoushitsu", "good">>,
       <<"joushitsu", "high">>, <<"kouhyouka", "high">>, <<"ninki", "popular">> >>

_extract_quality_preference(message) ==
    FirstHit(quality_keywords, LAMBDA k : TextContains(message, k))

common_brands ==
    {"Apple", "Sony", "Panasonic", "Sharp", "Toshiba", "Nike", "Adidas", "Uniqlo",
     "Zara", "H&M", "Samsung", "LG", "Canon", "Nikon", "Fujifilm"}

_extract_brands(message) ==
    {brand \in common_brands : TextContains(message, lower(brand))}

\* 電化製品 家電 服 ファッション 本 書籍 食品 食べ物 化粧品 美容 スポーツ 家具 玩具 おもちゃ
category_keywords ==
    { <<"denkaseihin", "electronics">>, <<"kaden", "electronics">>,
      <<"fuku", "clothing">>, <<"fashion", "clothing">>,
      <<"hon", "books">>, <<"shoseki", "books">>,
      <<"shokuhin", "food">>, <<"tabemono", "food">>,
      <<"keshouhin", "cosmetics">>, <<"biyou", "cosmetics">>,
      <<"sports", "sports">>, <<"kagu", "furniture">>,
      <<"gangu", "toys">>, <<"omocha", "toys">> }

_extract_categories(message) ==
    {kc[2] : kc \in {x \in category_keywords : TextContains(message, x[1])}}

\* 無線 ワイヤレス 防水 軽量 コンパクト 大容量 高速 省エネ スマート 自動
feature_keywords ==
    { <<"musen", "wireless">>, <<"wireless-ja", "wireless">>,
      <<"bousui", "waterproof">>, <<"keiryou", "lightweight">>,
      <<"compact-ja", "compact">>, <<"daiyouryou", "large_capacity">>,
      <<"kousoku", "high_speed">>, <<"shouene", "energy_saving">>,
      <<"smart-ja", "smart">>, <<"jidou", "automatic">> }

_extract_features(message) ==
    {kf[2] : kf \in {x \in feature_keywords : TextContains(message, x[1])}}

\* 除外 除く ない 不要 いらない except without not
exclusion_keywords ==
    {"jogai", "nozoku", "nai", "fuyou", "iranai", "except", "without", "not"}

\* words[i-1] for every word of message_lower.split() that is an exclusion keyword
_extract_excluded_items(message) ==
    {lower(message[i - 1]) : i \in {j \in 2..Len(message) :
                                       lower(message[j]) \in exclusion_keywords}}

_extract_preferences_from_message(message) ==
    [price_range    |-> _extract_price_preference(message),
     quality        |-> _extract_quality_preference(message),
     brands         |-> _extract_brands(message),
     categories     |-> _extract_categories(message),
     keywords       |-> extract_keywords(message),
     features       |-> _extract_features(message),
     excluded_items |-> _extract_excluded_items(message)]

(***************************************************************************)
(* Catalog filter (ProductSearchAgent)                                     *)
(***************************************************************************)

\* A price test that takes the tier's threshold as a floor.
PriceWithinFlipped(price, price_range) ==
    CASE price_range = "very_low" -> price >= 5000
      [] price_range = "low" -> price >= 15000
      [] price_range = "medium" -> price >= 50000
      [] price_range = "high" -> price >= 100000
      [] OTHER -> TRUE

\* A price test that excludes the ceiling itself.
PriceWithinStrict(price, price_range) ==
    CASE price_range = "very_low" -> price < 5000
      [] price_range = "low" -> price < 15000
      [] price_range = "medium" -> price < 50000
      [] price_range = "high" -> price < 100000
      [] OTHER -> TRUE

\* p["price"] <= price_thresholds.get(price_range, float('inf'))
PriceWithin(price, price_range) ==
    CASE price_range = "very_low" -> price <= 5000
      [] price_range = "low" -> price <= 15000
      [] price_range = "medium" -> price <= 50000
      [] price_range = "high" -> price <= 100000
      [] OTHER -> TRUE

_filter_by_price_range(products, price_range) ==
    SelectSeq(products, LAMBDA p : PriceWithin(p.price, price_range))

\* The query is "" or one word.
QueryMatches(p, query) ==
    LET query_lower == lower(query)
    IN  \/ TextContains(p.name, query_lower)
        \/ TextContains(p.description, query_lower)
        \/ IsSubstring(query_lower, lower(p.category))
        \/ IsSubstring(query_lower, lower(p.brand))

\* p.get("brand") in brands
BrandMatches(p, brands) == p.brand \in brands

\* A brand stage that filters by an empty brand list as well.
FilterByBrandsAlways(products, brands) ==
    SelectSeq(products, LAMBDA p : BrandMatches(p, brands))

\* brands = preferences.get("brands", []); if brands: keep p.get("brand") in brands
FilterByBrands(products, brands) ==
    IF brands # {}
    THEN SelectSeq(products, LAMBDA p : BrandMatches(p, brands))
    ELSE products

_filter_products_by_preferences(products, query, preferences) ==
    LET byQuery ==
            IF query # ""
            THEN SelectSeq(products, LAMBDA p : QueryMatches(p, query))
            ELSE products
        byPrice ==
            IF preferences.price_range # None
            THEN _filter_by_price_range(byQuery, preferences.price_range)
            ELSE byQuery
        byBrand == FilterByBrands(byPrice, preferences.brands)
        byCategory ==
            IF preferences.categories # {}
            THEN SelectSeq(byBrand, LAMBDA p : p.category \in preferences.categories)
            ELSE byBrand
        byFeature ==
            IF preferences.features # {}
            THEN SelectSeq(byCategory,
                           LAMBDA p : \E feature \in preferences.features :
                                         feature \in p.features)
            ELSE byCategory
    IN  IF preferences.excluded_items # {}
        THEN SelectSeq(byFeature,
                       LAMBDA p : ~ \E excluded \in preferences.excluded_items :
                                       TextContains(p.name, excluded))
        ELSE byFeature

(***************************************************************************)
(* Relevance ranking (utils/helpers.py)                                    *)
(***************************************************************************)

\* calculate_similarity as the fraction <<intersection, union>>; 0.0 is <<0, 1>>
calculate_similarity(text1, text2) ==
    LET keywords1 == extract_keywords(text1)
        keywords2 == extract_keywords(text2)
    IN  IF text1 = <<>> \/ text2 = <<>> \/ keywords1 = {} \/ keywords2 = {}
        THEN <<0, 1>>
        ELSE <<Cardinality(keywords1 \cap keywords2),
               Cardinality(keywords1 \cup keywords2)>>

\* The score of sort_products_by_relevance, times 100, as a fraction <<n, d>>:
\* 40*J(name) + 30*J(description) + 20*J(category) + rating (in tenths).
RelevanceScore(product, query) ==
    LET q  == IF query = "" THEN <<>> ELSE <<query>>
        jn == calculate_similarity(q, product.name)
        jd == calculate_similarity(q, product.description)
        jc == calculate_similarity(q, <<product.category>>)
        d  == jn[2] * jd[2] * jc[2]
    IN  << 40 * jn[1] * jd[2] * jc[2] + 30 * jd[1] * jn[2] * jc[2]
           + 20 * jc[1] * jn[2] * jd[2] + product.rating * d, d >>

ScoreGreater(a, b) == a[1] * b[2] > b[1] * a[2]

ScoreEqual(a, b) == a[1] * b[2] = b[1] * a[2]

\* list.sort(key=score, reverse=True) is stable: equal scores keep their order.
sort_products_by_relevance(products, query) ==
    IF products = <<>> \/ query = ""
    THEN products
    ELSE LET n == Len(products)
             score(i) == RelevanceScore(products[i], query)
             before(j, i) == \/ ScoreGreater(score(j), score(i))
                             \/ ScoreEqual(score(j), score(i)) /\ j < i
             rank(i) == 1 + Cardinality({j \in 1..n : before(j, i)})
         IN  [k \in 1..n |-> products[CHOOSE i \in 1..n : rank(i) = k]]

\* preferences.get("query", ""): the preference record has no key "query"
\* unless the caller put one there.
QueryOf(preferences) ==
    IF "query" \in DOMAIN preferences THEN preferences.query ELSE ""

\* search_products(preferences, session_data) without an internal fault
search_products(preferences, user_preferences) ==
    LET search_query == QueryOf(preferences)
        sorted_products ==
            sort_products_by_relevance(
                _filter_products_by_preferences(mock_products, search_query,
                                                user_preferences),
                search_query)
    IN  [products |-> sorted_products,
         total_count |-> Len(sorted_products),
         query |-> search_query]

\* The except branch of search_products
SearchFallback(preferences) ==
    [products |-> <<>>, total_count |-> 0, query |-> QueryOf(preferences)]

(***************************************************************************)
(* Intent classification (ConversationAgent)                               *)
(***************************************************************************)

\* こんにちは はじめまして おはよう こんばんは hello hi good morning good evening
greeting_patterns ==
    {"konnichiwa", "hajimemashite", "ohayou", "konbanwa",
     "hello", "hi", "good morning", "good evening"}

\* さようなら ありがとう お疲れ様 失礼します goodbye bye thank you thanks
farewell_patterns ==
    {"sayounara", "arigatou", "otsukaresama", "shitsureishimasu",
     "goodbye", "bye", "thank you", "thanks"}

\* ヘルプ 使い方 説明 サポート help how to support
help_patterns ==
    {"herupu", "tsukaikata", "setsumei", "sapooto", "help", "how to", "support"}

\* 探したい 検索 見つけたい 買いたい search find look for buy
search_intent_patterns ==
    {"sagashitai", "kensaku", "mitsuketai", "kaitai",
     "search", "find", "look for", "buy"}

\* ? ？ ですか でしょうか か what how why when where
question_indicators ==
    {"?", "?-zenkaku", "desuka", "deshouka", "ka",
     "what", "how", "why", "when", "where"}

\* any(re.search(pattern, message_lower) for pattern in patterns)
MatchesAny(message, patterns) ==
    \E pattern \in patterns : TextContains(message, pattern)

\* 電化製品 服 本 食品 化粧品 スポーツ 家具 玩具, in list order
entity_categories ==
    <<"denkaseihin", "fuku", "hon", "shokuhin", "keshouhin", "sports", "kagu", "gangu">>

entity_brands == <<"Apple", "Sony", "Panasonic", "Nike", "Adidas", "Uniqlo">>

\* The first element of an ordered list that hits, or None.
FirstOf(list, hit(_)) ==
    LET idx == {i \in 1..Len(list) : hit(list[i])}
    IN  IF idx = {} THEN None
        ELSE list[CHOOSE i \in idx : \A j \in idx : i <= j]

\* (\d+)円 (\d+)万円 (\d+)千円 (\d+)yen (\d+)万 (\d+)k: the digit groups of
\* the first pattern with a match, for the words of the model that hold a price.
EntityPrice(message) ==
    IF \E i \in 1..Len(message) : message[i] = "5000-en-ika" THEN <<"5000">>
    ELSE IF \E i \in 1..Len(message) : message[i] = "10-man-en-ijou" THEN <<"10">>
    ELSE None

\* `category in message` is case-sensitive; the brand test lowers both sides.
_extract_product_entities(message) ==
    [product_name |-> None,
     category |-> FirstOf(entity_categories,
                          LAMBDA c : \E i \in 1..Len(message) : IsSubstring(c, message[i])),
     price_range |-> EntityPrice(message),
     brand |-> FirstOf(entity_brands, LAMBDA b : TextContains(message, lower(b)))]

\* The empty dict {}
EmptyDict == [key \in {} |-> None]

\* A classification without a default: what matches no pattern stays unknown.
DefaultIntentUnknown(base) == base

\* The default of analyze_intent: what matches no pattern is a product search.
DefaultIntent(base) ==
    [base EXCEPT !.intent_type = "product_search",
                 !.requires_product_search = TRUE,
                 !.confidence = 5]

\* The intent dict analyze_intent starts from.
BaseIntent(sanitized_message) ==
    [requires_product_search |-> FALSE, intent_type |-> "unknown",
     confidence |-> 0, keywords |-> extract_keywords(sanitized_message),
     entities |-> EmptyDict]

\* A classification that tests the question indicators before the patterns.
analyze_intent_QuestionFirst(message) ==
    LET sanitized_message == sanitize_input(message)
        base == BaseIntent(sanitized_message)
    IN  IF MatchesAny(sanitized_message, question_indicators)
        THEN [base EXCEPT !.intent_type = "question", !.confidence = 6]
        ELSE IF MatchesAny(sanitized_message, greeting_patterns)
        THEN [base EXCEPT !.intent_type = "greeting", !.confidence = 9]
        ELSE IF MatchesAny(sanitized_message, farewell_patterns)
        THEN [base EXCEPT !.intent_type = "farewell", !.confidence = 9]
        ELSE IF MatchesAny(sanitized_message, help_patterns)
        THEN [base EXCEPT !.intent_type = "help", !.confidence = 8]
        ELSE IF MatchesAny(sanitized_message, search_intent_patterns)
        THEN [base EXCEPT !.intent_type = "product_search",
                          !.requires_product_search = TRUE,
                          !.confidence = 7,
                          !.entities = _extract_product_entities(sanitized_message)]
        ELSE DefaultIntent(base)

\* analyze_intent without an internal fault; confidence in tenths.
analyze_intent(message) ==
    LET sanitized_message == sanitize_input(message)
        base == BaseIntent(sanitized_message)
    IN  IF MatchesAny(sanitized_message, greeting_patterns)
        THEN [base EXCEPT !.intent_type = "greeting", !.confidence = 9]
        ELSE IF MatchesAny(sanitized_message, farewell_patterns)
        THEN [base EXCEPT !.intent_type = "farewell", !.confidence = 9]
        ELSE IF MatchesAny(sanitized_message, help_patterns)
        THEN [base EXCEPT !.intent_type = "help", !.confidence = 8]
        ELSE IF MatchesAny(sanitized_message, search_intent_patterns)
        THEN [base EXCEPT !.intent_type = "product_search",
                          !.requires_product_search = TRUE,
                          !.confidence = 7,
                          !.entities = _extract_product_entities(sanitized_message)]
        ELSE IF MatchesAny(sanitized_message, question_indicators)
        THEN [base EXCEPT !.intent_type = "question", !.confidence = 6]
        ELSE DefaultIntent(base)

(***************************************************************************)
(* Response synthesis.  A reply text is a record of the parts it is built  *)
(* from: the template pool, the index random.choice drew, and what the     *)
(* code appends to the template.                                           *)
(***************************************************************************)

\* Every pool of response_templates holds three templates.
Templates == 1..3

\* _generate_intent_response: the pool is chosen by intent_type
IntentPool(intent_type) ==
    CASE intent_type = "greeting" -> "greeting"
      [] intent_type = "farewell" -> "farewell"
      [] intent_type = "help" -> "help"
      [] intent_type = "product_search" -> "search_intent"
      [] OTHER -> "unknown"

\* ConversationAgent._generate_suggestions
\* 商品を探したい おすすめ商品を教えて 価格を比較したい / 価格の安い商品を探したい
\* 高評価の商品を教えて 商品の詳細を教えて / 商品検索の使い方 価格比較の方法
\* お気に入り登録の方法 / 商品を探したい おすすめ商品を教えて 使い方を教えて
ConversationSuggestions(intent_type) ==
    CASE intent_type = "greeting" ->
            <<"shouhin-wo-sagashitai", "osusume-shouhin-wo-oshiete", "kakaku-wo-hikaku-shitai">>
      [] intent_type = "product_search" ->
            <<"kakaku-no-yasui-shouhin-wo-sagashitai", "kouhyouka-no-shouhin-wo-oshiete",
              "shouhin-no-shousai-wo-oshiete">>
      [] intent_type = "help" ->
            <<"shouhin-kensaku-no-tsukaikata", "kakaku-hikaku-no-houhou",
              "okiniiri-touroku-no-houhou">>
      [] OTHER ->
            <<"shouhin-wo-sagashitai", "osusume-shouhin-wo-oshiete", "tsukaikata-wo-oshiete">>

\* ConversationAgent.generate_response; t is the template random.choice drew
ConversationResponse(message, t) ==
    LET intent == analyze_intent(message)
    IN  [message |-> [pool |-> IntentPool(intent.intent_type), template |-> t],
         intent |-> intent,
         suggestions |-> ConversationSuggestions(intent.intent_type),
         requires_action |-> intent.requires_product_search]

\* A customisation that tests each preference on its own.
NoResultsClausesEach(preferences) ==
    (IF preferences.price_range = "low" THEN <<"raise_price">> ELSE <<>>)
    \o (IF preferences.brands # {} THEN <<"other_brands">> ELSE <<>>)
    \o (IF preferences.categories # {} THEN <<"other_categories">> ELSE <<>>)

\* The sentences _generate_no_results_response appends to the template, in
\* order (if / elif / elif)
NoResultsClauses(preferences) ==
    IF preferences.price_range = "low" THEN <<"raise_price">>
    ELSE IF preferences.brands # {} THEN <<"other_brands">>
    ELSE IF preferences.categories # {} THEN <<"other_categories">>
    ELSE <<>>

_generate_no_results_response(preferences, t) ==
    [pool |-> "no_results", template |-> t, clauses |-> NoResultsClauses(preferences)]

\* The closing sentence of the single and the opening pool of the multiple
\* result text follow the same precedence: price_range low, then quality high.
_generate_single_result_response(product, preferences, t) ==
    [pool |-> "single_result", template |-> t, items |-> <<product.id>>,
     clause |-> IF preferences.price_range = "low" THEN "affordable"
                ELSE IF preferences.quality = "high" THEN "well_rated"
                ELSE None]

\* A pool choice that looks at the quality before the price range.
MultiplePoolQualityFirst(preferences) ==
    IF preferences.quality = "high" THEN "quality_focus"
    ELSE IF preferences.price_range = "low" THEN "price_focus"
    ELSE "multiple_results"

\* The pool _generate_multiple_results_response draws the opening from
MultiplePool(preferences) ==
    IF preferences.price_range = "low" THEN "price_focus"
    ELSE IF preferences.quality = "high" THEN "quality_focus"
    ELSE "multiple_results"

\* A rendering of every product.
TopProductsAll(products) == products

\* top_products = products[:3]
TopProducts(products) ==
    SubSeq(products, 1, IF Len(products) < 3 THEN Len(products) ELSE 3)

\* The numbered entries of top_products (items[i] is entry i) and the
\* overflow line with its number, appended when total_count > 3
_generate_multiple_results_response(products, preferences, total_count, t) ==
    [pool |-> MultiplePool(preferences), template |-> t,
     count |-> total_count,
     items |-> [i \in 1..Len(TopProducts(products)) |-> TopProducts(products)[i].id],
     overflow |-> IF total_count > 3 THEN <<total_count - 3>> ELSE <<>>]

Max(S) == CHOOSE x \in S : \A y \in S : y <= x
Min(S) == CHOOSE x \in S : \A y \in S : x <= y

\* ResultAggregatorAgent._generate_suggestions
\* 価格を変更して検索 カテゴリを変更して検索 別のキーワードで検索 / 商品を比較する
\* 価格の安い順で並び替え 価格の高い順で並び替え 高評価商品のみ表示 ブランドで絞り込み
AggregatorSuggestions(products) ==
    IF products = <<>>
    THEN <<"kakaku-wo-henkou", "category-wo-henkou", "betsu-no-keyword">>
    ELSE LET prices == {products[i].price : i \in 1..Len(products)}
             brands == {products[i].brand : i \in 1..Len(products)} \ {None, ""}
         IN  (IF Len(products) > 1 THEN <<"hikaku-suru">> ELSE <<>>)
             \o (IF Max(prices) - Min(prices) > 10000
                 THEN <<"yasui-jun", "takai-jun">> ELSE <<>>)
             \o (IF \E i \in 1..Len(products) : products[i].rating >= 45
                 THEN <<"kouhyouka-nomi">> ELSE <<>>)
             \o (IF Cardinality(brands) > 1 THEN <<"brand-de-shiborikomi">> ELSE <<>>)

\* A branch choice without the single-result case.
ResultBranchNonEmpty(total_count) ==
    IF total_count = 0 THEN "zero" ELSE "many"

\* if total_count == 0 / elif total_count == 1 / else
ResultBranch(total_count) ==
    IF total_count = 0 THEN "zero"
    ELSE IF total_count = 1 THEN "one"
    ELSE "many"

\* ResultAggregatorAgent.generate_response without an internal fault.  The
\* returned dict has no intent and no requires_action key.
AggregatorResponse(search_results, preferences, t) ==
    LET products == search_results.products
        total_count == search_results.total_count
        branch == ResultBranch(total_count)
    IN  [message |-> IF branch = "zero"
                     THEN _generate_no_results_response(preferences, t)
                     ELSE IF branch = "one"
                     THEN _generate_single_result_response(products[1], preferences, t)
                     ELSE _generate_multiple_results_response(products, preferences,
                                                              total_count, t),
         products |-> [i \in 1..Len(products) |-> products[i].id],
         total_count |-> total_count,
         suggestions |-> AggregatorSuggestions(products),
         has_products |-> total_count > 0]

\* A pipeline that searches on every turn.
SearchRunsAlways(user_message) == TRUE

\* if intent.get("requires_product_search", False)
SearchRuns(user_message) == analyze_intent(user_message).requires_product_search

\* process_chat_message, after extract_preferences stored the merged
\* preferences: the search is handed the merged preference dict, which has
\* no "query" key, and the aggregator's reply; otherwise the conversation
\* agent's reply.
process_chat_message(user_message, preferences, t) ==
    IF SearchRuns(user_message)
    THEN AggregatorResponse(search_products(preferences, preferences), preferences, t)
    ELSE ConversationResponse(user_message, t)

(***************************************************************************)
(* State                                                                   *)
(***************************************************************************)

\* The value of sessions[id] for an id that is not a key of the dict.
NoSession == [absent |-> TRUE]
\* A handler variable that is not bound yet.
Unbound == [unbound |-> TRUE]
Idle == "Idle"
NoCall == [op |-> "none"]

SessionIds == {"s1", "s2"}
Requests == {"r1", "r2"}
\* A request slot: the request body, then what the handler has bound so far
\* (session_id, response), and the session as the handler fetched it.
NoRequest ==
    [message |-> <<>>, sessionId |-> "", session_id |-> "",
     fetched |-> Unbound, extracted |-> Unbound, response |-> Unbound,
     overlapped |-> {}]

\* No session, no request in flight, no function under test.
StoreIdle ==
    /\ sessions = [sid \in SessionIds |-> NoSession]
    /\ pc = [r \in Requests |-> "idle"]
    /\ req = [r \in Requests |-> NoRequest]
    /\ running = Idle
    /\ now = 0

(***************************************************************************)
(* _merge_preferences as a function: SpecMerge draws an existing and an    *)
(* incoming record and merges the incoming one in, twice.                  *)
(***************************************************************************)

MergeInputs ==
    [price_range : {None, "low", "high"},
     quality : {None, "high"},
     brands : SUBSET {"Nike", "Apple"},
     categories : SUBSET {"clothing"},
     keywords : SUBSET {"nike"},
     features : SUBSET {"wireless"},
     excluded_items : SUBSET {"nike"}]

InitMerge ==
    /\ StoreIdle
    /\ fn \in [op : {"merge"}, stage : {"input"},
               existing : MergeInputs, new : MergeInputs]

MergeOnce ==
    /\ fn.op = "merge" /\ fn.stage = "input"
    /\ fn' = [op |-> "merge", stage |-> "merged",
              existing |-> fn.existing, new |-> fn.new,
              merged |-> _merge_preferences(fn.existing, fn.new)]
    /\ UNCHANGED <<sessions, pc, req, running, now>>

MergeAgain ==
    /\ fn.op = "merge" /\ fn.stage = "merged"
    /\ fn' = [op |-> "merge", stage |-> "merged_twice",
              existing |-> fn.existing, new |-> fn.new,
              merged |-> fn.merged,
              again |-> _merge_preferences(fn.merged, fn.new)]
    /\ UNCHANGED <<sessions, pc, req, running, now>>

NextMerge == MergeOnce \/ MergeAgain

SpecMerge == InitMerge /\ [][NextMerge]_vars

\* C1: merging the same incoming record a second time changes nothing:
\* _merge_preferences(_merge_preferences(P, Q), Q) = _merge_preferences(P, Q),
\* list-valued fields compared as sets and scalar fields by value.
C1_MergeIdempotent ==
    (fn.op = "merge" /\ fn.stage = "merged_twice") => fn.again = fn.merged

C1_Witness ==
    /\ fn.op = "merge" /\ fn.stage = "merged_twice"
    /\ fn.existing.brands = {"Nike"} /\ fn.new.brands = {"Nike", "Apple"}
    /\ fn.existing.price_range = "low" /\ fn.new.price_range = "high"
    /\ fn.new.keywords # {}
    /\ fn.merged # fn.existing

\* C10: for price_range and quality a non-null incoming value replaces the
\* existing one and a null incoming value leaves the existing one unchanged.
C10_ScalarOverwrite ==
    (fn.op = "merge" /\ fn.stage = "merged") =>
        \A key \in ScalarKeys :
            fn.merged[key] = IF fn.new[key] # None THEN fn.new[key]
                             ELSE fn.existing[key]

C10_Witness ==
    /\ fn.op = "merge" /\ fn.stage = "merged"
    /\ fn.existing.price_range = "low" /\ fn.new.price_range = "high"
    /\ fn.merged.price_range = "high"
    /\ fn.existing.quality = "high" /\ fn.new.quality = None
    /\ fn.merged.quality = "high"

(***************************************************************************)
(* _filter_products_by_preferences as a function: SpecFilter draws a       *)
(* product list, a query, a preference record and an extra record, and     *)
(* filters with the record alone and with the extra record merged in.      *)
(***************************************************************************)

FilterInputs ==
    [price_range : {None, "very_low", "low", "high"},
     quality : {None},
     brands : SUBSET {"Nike", "Apple"},
     categories : SUBSET {"electronics"},
     keywords : {{}},
     features : SUBSET {"lightweight"},
     excluded_items : SUBSET {"nike"}]

FilterQueries == {"", "Air", "xyz-nonexistent"}

FilterProductLists == {mock_products, SubSeq(mock_products, 3, 6)}

InitFilter ==
    /\ StoreIdle
    /\ fn \in [op : {"filter"}, stage : {"input"},
               products : FilterProductLists, query : FilterQueries,
               prefs : FilterInputs, extra : FilterInputs]

FilterBoth ==
    /\ fn.op = "filter" /\ fn.stage = "input"
    /\ fn' = [op |-> "filter", stage |-> "filtered",
              products |-> fn.products, query |-> fn.query,
              prefs |-> fn.prefs, extra |-> fn.extra,
              with_prefs |->
                  _filter_products_by_preferences(fn.products, fn.query, fn.prefs),
              with_extra |->
                  _filter_products_by_preferences(
                      fn.products, fn.query,
                      _merge_preferences(fn.prefs, fn.extra))]
    /\ UNCHANGED <<sessions, pc, req, running, now>>

NextFilter == FilterBoth

SpecFilter == InitFilter /\ [][NextFilter]_vars

\* The order of the price tiers by ceiling.
TierRank(price_range) ==
    CASE price_range = "very_low" -> 1
      [] price_range = "low" -> 2
      [] price_range = "medium" -> 3
      [] price_range = "high" -> 4
      [] OTHER -> 5

\* extra only constrains what prefs leaves open, or constrains it further.
Tightens(prefs, extra) ==
    /\ \A key \in {"brands", "categories", "features"} :
          prefs[key] = {} \/ extra[key] \subseteq prefs[key]
    /\ \/ extra.price_range = None
       \/ prefs.price_range = None
       \/ TierRank(extra.price_range) <= TierRank(prefs.price_range)

\* C3 as stated: filtering with prefs merged with any extra record returns a
\* subset of the result with prefs alone.
C3_FilterMonotone ==
    (fn.op = "filter" /\ fn.stage = "filtered") =>
        Range(fn.with_extra) \subseteq Range(fn.with_prefs)

\* C3 amended: filtering with prefs merged with extra returns a subset of
\* the result with prefs alone whenever extra adds brands, categories or
\* features only to a field that is empty in prefs, and does not replace the
\* price tier by one with a higher ceiling (excluded_items may grow freely).
C3_FilterMonotoneTightening ==
    (fn.op = "filter" /\ fn.stage = "filtered" /\ Tightens(fn.prefs, fn.extra)) =>
        Range(fn.with_extra) \subseteq Range(fn.with_prefs)

C3_Witness ==
    /\ fn.op = "filter" /\ fn.stage = "filtered"
    /\ Tightens(fn.prefs, fn.extra)
    /\ fn.prefs.brands = {} /\ fn.extra.brands = {"Nike", "Apple"}
    /\ fn.prefs.price_range = "high" /\ fn.extra.price_range = "low"
    /\ fn.extra.excluded_items # {} /\ fn.prefs.excluded_items = {}
    /\ fn.with_prefs # <<>>
    /\ fn.with_extra # fn.with_prefs

(***************************************************************************)
(* Session store and the chat handler.  The handler runs on the one event  *)
(* loop: `running` is the request whose handler holds the loop.            *)
(***************************************************************************)

\* session_timeout = timedelta(hours=24); `now` counts hours
session_timeout == 24

\* create_session / create_session_data: the initial session data
NewSession(t) ==
    [conversation_history |-> <<>>,
     user_preferences |-> EmptyPreferences,
     favorites |-> <<>>,
     last_accessed |-> t]

\* An expiry test that counts the timeout itself as expired.
_is_session_expiredAtTimeout(session_data, t) ==
    t - session_data.last_accessed >= session_timeout

\* datetime.now() - last_accessed_dt > self.session_timeout
_is_session_expired(session_data, t) ==
    t - session_data.last_accessed > session_timeout

\* get_session returns None for an unknown or an expired session id.
SessionLive(store, session_id, t) ==
    /\ store[session_id] # NoSession
    /\ ~_is_session_expired(store[session_id], t)

\* get_session: an expired session is deleted, a live one is touched.
get_session(store, session_id, t) ==
    IF store[session_id] = NoSession THEN store
    ELSE IF _is_session_expired(store[session_id], t)
    THEN [store EXCEPT ![session_id] = NoSession]
    ELSE [store EXCEPT ![session_id].last_accessed = t]

\* UserPreferenceAgent.extract_preferences: the merged preferences it stores
extract_preferences(message, existing_preferences) ==
    _merge_preferences(existing_preferences,
                       _extract_preferences_from_message(sanitize_input(message)))

\* An await that hands the event loop to other handlers every time.
AwaitSuspendsAlways == TRUE

\* None of the coroutines the handler awaits (process_chat_message and the
\* four agent calls in it) reaches a suspension point, so the handler keeps
\* the event loop from its first statement to its return.
AwaitSuspends == FALSE

HoldsLoop(r) == running = IF AwaitSuspends THEN Idle ELSE r
AfterAwait(r) == IF AwaitSuspends THEN Idle ELSE r

\* The messages a client sends: こんにちは / Nike / 安い 服 / xyz-nonexistent /
\* 検索 Sony, and a blank one.
ChatMessages ==
    {<<"konnichiwa">>, <<"Nike">>, <<"yasui", "fuku">>, <<"xyz-nonexistent">>,
     <<"kensaku", "Sony">>, <<>>}

\* A blank character of a message, as a word of its own
Whitespace == {" "}

\* str.strip(): the text without its leading and trailing whitespace
strip(text) ==
    LET inner == {i \in 1..Len(text) : text[i] \notin Whitespace}
    IN  IF inner = {} THEN <<>>
        ELSE SubSeq(text, CHOOSE i \in inner : \A j \in inner : i <= j,
                          CHOOSE i \in inner : \A j \in inner : j <= i)

\* A validation that rejects only the empty message.
IsBlankEmptyOnly(user_message) == user_message = <<>>

\* if not user_message.strip()
IsBlank(user_message) == strip(user_message) = <<>>

\* A client posts {message, sessionId} to /api/chat.
ArriveWith(r, messages, session_ids) ==
    /\ pc[r] = "idle"
    /\ \E message \in messages, sessionId \in session_ids :
          req' = [req EXCEPT ![r] = [NoRequest EXCEPT !.message = message,
                                                       !.sessionId = sessionId]]
    /\ pc' = [pc EXCEPT ![r] = "pending"]
    /\ UNCHANGED <<sessions, running, now, fn>>

Arrive(r) == ArriveWith(r, ChatMessages, SessionIds \cup {""})

\* A history that keeps the newest message only.
HistoryReplace(conversation_history, message) == <<message>>

\* session_data["conversation_history"].append(message)
HistoryAppend(conversation_history, message) == Append(conversation_history, message)

\* chat, up to the await: reject a blank message, bind the session id
\* (a fresh one when the request has none), fetch or create the session data
\* and append the user message to it.
ChatStart(r) ==
    /\ pc[r] = "pending"
    /\ running = Idle
    /\ IF IsBlank(req[r].message)
       THEN /\ pc' = [pc EXCEPT ![r] = "rejected"]
            /\ UNCHANGED <<sessions, req, running>>
       ELSE \E session_id \in SessionIds :
              /\ IF req[r].sessionId = ""
                 THEN sessions[session_id] = NoSession
                 ELSE session_id = req[r].sessionId
              /\ LET created == req[r].sessionId = ""
                     session_data ==
                         IF ~created /\ SessionLive(sessions, session_id, now)
                         THEN [sessions[session_id] EXCEPT !.last_accessed = now]
                         ELSE NewSession(now)
                 IN  /\ sessions' =
                            [sessions EXCEPT ![session_id] =
                                [session_data EXCEPT !.conversation_history =
                                    HistoryAppend(@, [role |-> "user",
                                                      content |-> req[r].message])]]
                     /\ req' = [req EXCEPT
                                  ![r].session_id = session_id,
                                  ![r].fetched = session_data,
                                  ![r].overlapped =
                                      {q \in Requests \ {r} : pc[q] = "pending"}]
              /\ pc' = [pc EXCEPT ![r] = "process"]
              /\ running' = AfterAwait(r)
    /\ UNCHANGED <<now, fn>>

\* A store in which the preferences are kept once for all sessions.
StorePreferencesShared(store, session_id, merged_preferences) ==
    [sid \in DOMAIN store |->
        IF store[sid] = NoSession THEN NoSession
        ELSE [store[sid] EXCEPT !.user_preferences = merged_preferences]]

\* session_data["user_preferences"] = merged_preferences, on the stored dict
StorePreferences(store, session_id, merged_preferences) ==
    [store EXCEPT ![session_id].user_preferences = merged_preferences]

\* process_chat_message: extract_preferences stores the merged preferences in
\* the session data, which is the stored dict itself; t is the template drawn.
ChatProcess(r) ==
    /\ pc[r] = "process"
    /\ HoldsLoop(r)
    /\ \E t \in Templates :
          LET session_id == req[r].session_id
              merged == extract_preferences(req[r].message,
                                            sessions[session_id].user_preferences)
          IN  /\ sessions' = StorePreferences(sessions, session_id, merged)
              /\ req' = [req EXCEPT
                           ![r].extracted =
                               _extract_preferences_from_message(
                                   sanitize_input(req[r].message)),
                           ![r].response =
                               process_chat_message(req[r].message, merged, t)]
    /\ pc' = [pc EXCEPT ![r] = "reply"]
    /\ running' = AfterAwait(r)
    /\ UNCHANGED <<now, fn>>

\* response["sessionId"] = session_id
WithSessionId(response, session_id) ==
    [key \in DOMAIN response \cup {"sessionId"} |->
        IF key = "sessionId" THEN session_id ELSE response[key]]

\* chat, after the await: append the assistant message, update_session, return.
ChatReply(r) ==
    /\ pc[r] = "reply"
    /\ HoldsLoop(r)
    /\ LET session_id == req[r].session_id
       IN  sessions' = [sessions EXCEPT ![session_id] =
               [@ EXCEPT !.conversation_history =
                             HistoryAppend(@, [role |-> "assistant",
                                               content |-> req[r].response.message]),
                         !.last_accessed = now]]
    /\ req' = [req EXCEPT ![r].response = WithSessionId(@, req[r].session_id)]
    /\ pc' = [pc EXCEPT ![r] = "done"]
    /\ running' = Idle
    /\ UNCHANGED <<now, fn>>

\* An exception raised after the session was fetched reaches the handler's
\* `except Exception`, which answers 500 and leaves the session as it is.
ChatFault(r) ==
    /\ pc[r] \in {"process", "reply"}
    /\ HoldsLoop(r)
    /\ pc' = [pc EXCEPT ![r] = "failed"]
    /\ running' = Idle
    /\ UNCHANGED <<sessions, req, now, fn>>

Init == StoreIdle /\ fn = NoCall

Next ==
    \E r \in Requests :
        \/ Arrive(r)
        \/ ChatStart(r)
        \/ ChatProcess(r)
        \/ ChatReply(r)
        \/ ChatFault(r)

Spec == Init /\ [][Next]_vars

(***************************************************************************)
(* Preference operations beside the chat turn                              *)
(***************************************************************************)

\* The dicts a caller passes to update_preferences / update_user_preferences:
\* a dict holds only the keys the caller set.
PreferenceUpdates ==
    {[brands |-> {"Sony"}],
     [price_range |-> "high", categories |-> {"books"}],
     [brands |-> {}, quality |-> "high"]}

\* The dict as _merge_preferences sees it: new.items() yields the keys set.
AsPreferences(preferences) ==
    [key \in PrefKeys |->
        IF key \in DOMAIN preferences THEN preferences[key] ELSE EmptyPreferences[key]]

\* dict.update(preferences): every key of the argument replaces the stored one.
DictUpdate(old, preferences) ==
    [key \in PrefKeys |->
        IF key \in DOMAIN preferences THEN preferences[key] ELSE old[key]]

\* UserPreferenceAgent.update_preferences on the data of a stored session
UpdatePreferences(session_id) ==
    /\ running = Idle
    /\ sessions[session_id] # NoSession
    /\ \E preferences \in PreferenceUpdates :
          sessions' = [sessions EXCEPT ![session_id].user_preferences =
                          _merge_preferences(@, AsPreferences(preferences))]
    /\ UNCHANGED <<pc, req, running, now, fn>>

\* SessionManager.update_user_preferences
UpdateUserPreferences(session_id) ==
    /\ running = Idle
    /\ sessions[session_id] # NoSession
    /\ \E preferences \in PreferenceUpdates :
          LET store == get_session(sessions, session_id, now)
          IN  sessions' =
                  IF store[session_id] = NoSession THEN store
                  ELSE [store EXCEPT ![session_id].user_preferences =
                           DictUpdate(@, preferences)]
    /\ UNCHANGED <<pc, req, running, now, fn>>

\* UserPreferenceAgent.clear_preferences on the data of a stored session
ClearPreferences(session_id) ==
    /\ running = Idle
    /\ sessions[session_id] # NoSession
    /\ sessions' = [sessions EXCEPT ![session_id].user_preferences = EmptyPreferences]
    /\ UNCHANGED <<pc, req, running, now, fn>>

\* One client whose message names a brand, and the preference operations.
PrefsMessages == {<<"Nike">>, <<"konnichiwa">>}

NextPrefs ==
    \/ ArriveWith("r1", PrefsMessages, {"s1"})
    \/ ChatStart("r1")
    \/ ChatProcess("r1")
    \/ ChatReply("r1")
    \/ ChatFault("r1")
    \/ \E session_id \in SessionIds :
          \/ UpdatePreferences(session_id)
          \/ UpdateUserPreferences(session_id)
          \/ ClearPreferences(session_id)

SpecPrefs == Init /\ [][NextPrefs]_vars

(***************************************************************************)
(* History length: SpecHist starts from a session that fifty greeting      *)
(* turns have filled and runs chat turns and add_conversation_message.     *)
(***************************************************************************)

\* max_history = 100 in add_conversation_message
max_history == 100

\* The number of add_conversation_message calls SpecHist follows.
MaxAddCalls == 1

GreetingTurn ==
    <<[role |-> "user", content |-> <<"konnichiwa">>],
      [role |-> "assistant", content |-> [pool |-> "greeting", template |-> 1]]>>

RECURSIVE Turns(_)
Turns(n) == IF n = 0 THEN <<>> ELSE Turns(n - 1) \o GreetingTurn

InitHist ==
    /\ \E n \in {max_history \div 2 - 1, max_history \div 2} :
          sessions = [session_id \in SessionIds |->
                         IF session_id = "s1"
                         THEN [NewSession(0) EXCEPT
                                  !.conversation_history = Turns(n),
                                  !.user_preferences =
                                      extract_preferences(<<"konnichiwa">>,
                                                          EmptyPreferences)]
                         ELSE NoSession]
    /\ pc = [r \in Requests |-> "idle"]
    /\ req = [r \in Requests |-> NoRequest]
    /\ running = Idle
    /\ now = 0
    /\ fn = [op |-> "add_conversation_message", calls |-> 0]

HistMessages == {<<"konnichiwa">>, <<"Nike">>}

\* SessionManager.add_conversation_message
AddConversationMessage(session_id) ==
    /\ running = Idle
    /\ fn.calls < MaxAddCalls
    /\ \E role \in {"user", "assistant"}, content \in HistMessages :
          LET store == get_session(sessions, session_id, now)
              appended == Append(store[session_id].conversation_history,
                                 [role |-> role, content |-> content])
          IN  sessions' =
                  IF store[session_id] = NoSession THEN store
                  ELSE [store EXCEPT ![session_id].conversation_history =
                           IF Len(appended) > max_history
                           THEN SubSeq(appended, Len(appended) - max_history + 1,
                                       Len(appended))
                           ELSE appended]
    /\ fn' = [fn EXCEPT !.calls = @ + 1]
    /\ UNCHANGED <<pc, req, running, now>>

NextHist ==
    \/ \E r \in Requests :
          \/ ArriveWith(r, HistMessages, {"s1"})
          \/ ChatStart(r)
          \/ ChatProcess(r)
          \/ ChatReply(r)
          \/ ChatFault(r)
    \/ AddConversationMessage("s1")

SpecHist == InitHist /\ [][NextHist]_vars

(***************************************************************************)
(* Claims about chat turns                                                 *)
(***************************************************************************)

SetValuedKeys == ListKeys \cup {"keywords"}

\* C2: after a turn, every set-valued preference field (brands, categories,
\* features, excluded_items and keywords) is the union of its value before
\* the turn and the values extracted from the turn's message.
C2_SetFieldsUnion ==
    \A r \in Requests :
        pc[r] = "reply" =>
            \A key \in SetValuedKeys :
                sessions[req[r].session_id].user_preferences[key]
                    = req[r].fetched.user_preferences[key] \cup req[r].extracted[key]

\* The message holds a text that is a substring of no product's name,
\* description, category or brand.
MatchesNoProduct(message) ==
    \A i \in 1..Len(message), j \in 1..Len(mock_products) :
        ~QueryMatches(mock_products[j], message[i])

NoPreference(preferences) ==
    /\ preferences.price_range = None
    /\ preferences.quality = None
    /\ \A key \in ListKeys : preferences[key] = {}

\* C4: a product_search turn on a session with empty preferences, whose
\* message matches no product and yields no preference, ends with
\* total_count = 0, a text of the no-results pool and a broaden-search prompt
\* among the suggestions.
C4_MessageIsQuery ==
    \A r \in Requests :
        (/\ pc[r] = "done"
         /\ analyze_intent(req[r].message).intent_type = "product_search"
         /\ req[r].fetched.user_preferences = EmptyPreferences
         /\ MatchesNoProduct(req[r].message)
         /\ NoPreference(req[r].extracted))
        => /\ req[r].response.total_count = 0
           /\ req[r].response.message.pool = "no_results"
           /\ "betsu-no-keyword" \in Range(req[r].response.suggestions)

\* C5: the result of every completed turn has the fields message, intent,
\* suggestions and requires_action.
C5_TurnResultFields ==
    \A r \in Requests :
        pc[r] = "done" =>
            {"message", "intent", "suggestions", "requires_action"}
                \subseteq DOMAIN req[r].response

UserMessage(r) == [role |-> "user", content |-> req[r].message]
AssistantMessage(r) == [role |-> "assistant", content |-> req[r].response.message]

\* The session is what running turn a and then turn b, one after the other,
\* leaves: b fetched what a committed, the history ends with a's pair followed
\* by b's pair, and the preferences are b's merge on top of a's.
SerialOrder(a, b) ==
    LET session_data == sessions[req[a].session_id]
    IN  /\ req[b].fetched.conversation_history =
              req[a].fetched.conversation_history
                  \o <<UserMessage(a), AssistantMessage(a)>>
        /\ session_data.conversation_history =
              req[a].fetched.conversation_history
                  \o <<UserMessage(a), AssistantMessage(a),
                       UserMessage(b), AssistantMessage(b)>>
        /\ session_data.user_preferences =
              extract_preferences(req[b].message,
                  extract_preferences(req[a].message,
                                      req[a].fetched.user_preferences))
        /\ \A key \in ListKeys :
              req[a].extracted[key] \cup req[b].extracted[key]
                  \subseteq session_data.user_preferences[key]

\* C6: two chat requests for one session leave the session as some serial
\* execution of the two turns does: all four messages, each user message
\* directly followed by its own reply, and the preference contributions of
\* both turns.
C6_TurnsSerialize ==
    \A a, b \in Requests :
        (/\ a # b
         /\ pc[a] = "done" /\ pc[b] = "done"
         /\ req[a].session_id = req[b].session_id)
        => SerialOrder(a, b) \/ SerialOrder(b, a)

\* Both requests were in flight at once, both turns completed on the same
\* session and each contributed a brand.
C6_Witness ==
    \E a, b \in Requests :
        /\ a # b
        /\ pc[a] = "done" /\ pc[b] = "done"
        /\ req[a].session_id = req[b].session_id
        /\ b \in req[a].overlapped
        /\ req[a].extracted.brands = {"Nike"}
        /\ req[b].extracted.brands = {"Sony"}
        /\ sessions[req[a].session_id].user_preferences.brands = {"Nike", "Sony"}
        /\ Len(sessions[req[a].session_id].conversation_history) = 4

\* C7: after a turn failed, the stored conversation_history, user_preferences
\* and favorites are what they were when the turn fetched the session.
C7_AllOrNothing ==
    \A r \in Requests :
        (pc[r] = "failed" /\ running = Idle
         /\ \A q \in Requests \ {r} : pc[q] \in {"idle", "pending"})
        => LET session_data == sessions[req[r].session_id]
           IN  /\ session_data.conversation_history
                      = req[r].fetched.conversation_history
               /\ session_data.user_preferences = req[r].fetched.user_preferences
               /\ session_data.favorites = req[r].fetched.favorites

(***************************************************************************)
(* Claims about the stored history and preferences                         *)
(***************************************************************************)

\* C8: the conversation_history of every stored session holds at most
\* max_history messages, whatever chat turns and add_conversation_message
\* calls ran.
C8_HistoryBounded ==
    \A session_id \in SessionIds :
        sessions[session_id] # NoSession =>
            Len(sessions[session_id].conversation_history) <= max_history

\* C9: no step other than an explicit clear removes an element from the
\* brands, categories, features or excluded_items of a stored session.
C9_NeverRemoved ==
    [][\/ \E session_id \in SessionIds : ClearPreferences(session_id)
       \/ \A session_id \in SessionIds :
             (sessions[session_id] # NoSession /\ sessions'[session_id] # NoSession)
             => \A key \in ListKeys :
                   sessions[session_id].user_preferences[key]
                       \subseteq sessions'[session_id].user_preferences[key]]_vars

(***************************************************************************)
(* _merge_preferences on three records: SpecAssoc draws A, B and C and     *)
(* merges them in both groupings.                                          *)
(***************************************************************************)

AssocInputs ==
    [price_range : {None, "low", "high"},
     quality : {None},
     brands : SUBSET {"Nike", "Apple"},
     categories : {{}},
     keywords : SUBSET {"nike"},
     features : {{}},
     excluded_items : {{}}]

InitAssoc ==
    /\ StoreIdle
    /\ fn \in [op : {"assoc"}, stage : {"input"},
               A : AssocInputs, B : AssocInputs, C : AssocInputs]

MergeLeft ==
    /\ fn.op = "assoc" /\ fn.stage = "input"
    /\ fn' = [fn EXCEPT !.stage = "left"] @@
             [left |-> _merge_preferences(_merge_preferences(fn.A, fn.B), fn.C)]
    /\ UNCHANGED <<sessions, pc, req, running, now>>

MergeRight ==
    /\ fn.op = "assoc" /\ fn.stage = "left"
    /\ fn' = [fn EXCEPT !.stage = "both"] @@
             [right |-> _merge_preferences(fn.A, _merge_preferences(fn.B, fn.C))]
    /\ UNCHANGED <<sessions, pc, req, running, now>>

NextAssoc == MergeLeft \/ MergeRight

SpecAssoc == InitAssoc /\ [][NextAssoc]_vars

\* C11: merging is associative: merge(merge(A, B), C) = merge(A, merge(B, C))
\* for all preference records A, B, C, list-valued fields compared as sets.
C11_MergeAssociative ==
    (fn.op = "assoc" /\ fn.stage = "both") => fn.left = fn.right

\* Three records that each set a different brand set and disagree on the
\* price range and the keywords.
C11_Witness ==
    /\ fn.op = "assoc" /\ fn.stage = "both"
    /\ fn.A.brands = {"Nike"} /\ fn.B.brands = {"Apple"} /\ fn.C.brands = {"Nike"}
    /\ fn.A.price_range = "low" /\ fn.B.price_range = "high"
    /\ fn.C.price_range = None
    /\ fn.A.keywords = {"nike"} /\ fn.B.keywords = {} /\ fn.C.keywords = {"nike"}
    /\ fn.left.brands = {"Nike", "Apple"} /\ fn.left.price_range = "high"

(***************************************************************************)
(* sort_products_by_relevance as a function: SpecRank draws a product list *)
(* (a selection of the catalog, in catalog order or reversed) and a query, *)
(* and ranks the list.                                                     *)
(***************************************************************************)

RECURSIVE Pick(_, _)
\* The products at the indices of S, in catalog order.
Pick(S, i) ==
    IF i > Len(mock_products) THEN <<>>
    ELSE (IF i \in S THEN <<mock_products[i]>> ELSE <<>>) \o Pick(S, i + 1)

Reverse(s) == [i \in 1..Len(s) |-> s[Len(s) + 1 - i]]

RankProductLists ==
    LET selections == {Pick(S, 1) : S \in SUBSET (1..Len(mock_products))}
    IN  selections \cup {Reverse(s) : s \in selections}

RankQueries == {"", "Air", "Nike", "clothing", "xyz-nonexistent"}

InitRank ==
    /\ StoreIdle
    /\ fn \in [op : {"rank"}, stage : {"input"},
               products : RankProductLists, query : RankQueries]

RankOnce ==
    /\ fn.op = "rank" /\ fn.stage = "input"
    /\ fn' = [op |-> "rank", stage |-> "ranked",
              products |-> fn.products, query |-> fn.query,
              ranked |-> sort_products_by_relevance(fn.products, fn.query)]
    /\ UNCHANGED <<sessions, pc, req, running, now>>

NextRank == RankOnce

SpecRank == InitRank /\ [][NextRank]_vars

\* The index of product p in list s (ids are unique).
IndexOf(s, p) == CHOOSE i \in 1..Len(s) : s[i].id = p.id

\* `ranked` holds the products of `products` in non-increasing order of
\* score for `query`, products of equal score in their order in `products`.
RankedByScore(products, query, ranked) ==
    /\ Len(ranked) = Len(products)
    /\ Range(ranked) = Range(products)
    /\ \A i, j \in 1..Len(ranked) :
          i < j =>
             LET si == RelevanceScore(ranked[i], query)
                 sj == RelevanceScore(ranked[j], query)
             IN  /\ ~ScoreGreater(sj, si)
                 /\ ScoreEqual(si, sj) =>
                       IndexOf(products, ranked[i]) < IndexOf(products, ranked[j])

\* C12: for every product list and every query the ranked list is a
\* permutation of the input in non-increasing order of score, and products
\* of equal score keep their input order.
C12_RankedByScore ==
    (fn.op = "rank" /\ fn.stage = "ranked") =>
        RankedByScore(fn.products, fn.query, fn.ranked)

(***************************************************************************)
(* analyze_intent as a function: SpecIntent draws a message of one or two  *)
(* words and classifies it.                                                *)
(***************************************************************************)

\* こんにちは ありがとう 使い方 検索 ですか Toshiba Nike Sony help what 服
\* 5000円以下
IntentWords ==
    {"konnichiwa", "arigatou", "tsukaikata", "kensaku", "desuka", "Toshiba",
     "Nike", "Sony", "help", "what", "fuku", "5000-en-ika"}

IntentMessages ==
    {<<w>> : w \in IntentWords} \cup {<<v, w>> : v, w \in IntentWords}

InitIntent ==
    /\ StoreIdle
    /\ fn \in [op : {"intent"}, stage : {"input"}, message : IntentMessages]

AnalyzeIntent ==
    /\ fn.op = "intent" /\ fn.stage = "input"
    /\ fn' = [op |-> "intent", stage |-> "analyzed", message |-> fn.message,
              intent |-> analyze_intent(fn.message)]
    /\ UNCHANGED <<sessions, pc, req, running, now>>

NextIntent == AnalyzeIntent

SpecIntent == InitIntent /\ [][NextIntent]_vars

\* The five categories in the order of precedence, with their confidence in
\* tenths.
IntentPrecedence ==
    << [intent_type |-> "greeting", patterns |-> greeting_patterns, confidence |-> 9],
       [intent_type |-> "farewell", patterns |-> farewell_patterns, confidence |-> 9],
       [intent_type |-> "help", patterns |-> help_patterns, confidence |-> 8],
       [intent_type |-> "product_search", patterns |-> search_intent_patterns,
        confidence |-> 7],
       [intent_type |-> "question", patterns |-> question_indicators,
        confidence |-> 6] >>

\* The categories a message matches, as indices of IntentPrecedence.
CategoriesMatched(message) ==
    {i \in 1..Len(IntentPrecedence) :
        \E pattern \in IntentPrecedence[i].patterns :
            TextContains(sanitize_input(message), pattern)}

\* C13: a message that matches one or more of the five categories gets the
\* earliest of them in the order greeting, farewell, help, product-search,
\* question, with that category's confidence (0.9, 0.9, 0.8, 0.7, 0.6).
C13_FirstMatchWins ==
    (fn.op = "intent" /\ fn.stage = "analyzed"
     /\ CategoriesMatched(fn.message) # {})
    => LET first == IntentPrecedence[Min(CategoriesMatched(fn.message))]
       IN  /\ fn.intent.intent_type = first.intent_type
           /\ fn.intent.confidence = first.confidence

\* 使い方 ですか matches help and question and is classified help.
C13_Witness ==
    /\ fn.op = "intent" /\ fn.stage = "analyzed"
    /\ fn.message = <<"tsukaikata", "desuka">>
    /\ CategoriesMatched(fn.message) = {3, 5}
    /\ fn.intent.intent_type = "help" /\ fn.intent.confidence = 8

\* C14: a message that matches none of the five pattern sets is classified
\* product_search with confidence 0.5 and requires a product search, and no
\* message is classified unknown.
C14_DefaultIsSearch ==
    (fn.op = "intent" /\ fn.stage = "analyzed")
    => /\ fn.intent.intent_type # "unknown"
       /\ CategoriesMatched(fn.message) = {} =>
             /\ fn.intent.intent_type = "product_search"
             /\ fn.intent.confidence = 5
             /\ fn.intent.requires_product_search

\* Nike Sony matches no pattern set.
C14_Witness ==
    /\ fn.op = "intent" /\ fn.stage = "analyzed"
    /\ fn.message = <<"Nike", "Sony">>
    /\ CategoriesMatched(fn.message) = {}
    /\ fn.intent.intent_type = "product_search" /\ fn.intent.confidence = 5

\* C15: whenever the intent is product_search, its entities record holds the
\* price_range, category and brand extracted from the message.
C15_EntitiesForEverySearch ==
    (fn.op = "intent" /\ fn.stage = "analyzed"
     /\ fn.intent.intent_type = "product_search")
    => fn.intent.entities = _extract_product_entities(sanitize_input(fn.message))

(***************************************************************************)
(* One chat turn through process_chat_message: the intent is analysed,     *)
(* the preferences are extracted and merged, and the reply comes from the  *)
(* search and the aggregator or from the conversation agent.               *)
(***************************************************************************)

\* Preferences a session holds when the turn starts
TurnPreferences ==
    {EmptyPreferences,
     [EmptyPreferences EXCEPT !.brands = {"Nike"}],
     [EmptyPreferences EXCEPT !.price_range = "low"]}

InitTurn ==
    /\ StoreIdle
    /\ fn \in [op : {"turn"}, stage : {"input"}, message : IntentMessages,
               preferences : TurnPreferences, t : Templates]

\* process_chat_message on the message; searched records whether the
\* search_products branch was taken
ProcessTurn ==
    /\ fn.op = "turn" /\ fn.stage = "input"
    /\ LET merged == extract_preferences(fn.message, fn.preferences)
       IN  fn' = [op |-> "turn", stage |-> "processed", message |-> fn.message,
                  preferences |-> merged,
                  searched |-> SearchRuns(fn.message),
                  response |-> process_chat_message(fn.message, merged, fn.t)]
    /\ UNCHANGED <<sessions, pc, req, running, now>>

NextTurn == ProcessTurn

SpecTurn == InitTurn /\ [][NextTurn]_vars

ConversationalIntents == {"greeting", "farewell", "help", "question"}

\* C16: a turn runs the catalog search exactly when the analysed intent
\* requires it; a turn classified greeting, farewell, help or question runs
\* no search, answers with requires_action false and carries no products;
\* the greeting "konnichiwa" is answered with intent greeting, confidence 0.9.
C16_SearchIffRequired ==
    (fn.op = "turn" /\ fn.stage = "processed") =>
        LET intent == analyze_intent(fn.message)
        IN  /\ fn.searched <=> intent.requires_product_search
            /\ ("products" \in DOMAIN fn.response) <=> intent.requires_product_search
            /\ intent.intent_type \in ConversationalIntents =>
                  /\ ~fn.searched
                  /\ fn.response.requires_action = FALSE
                  /\ "products" \notin DOMAIN fn.response
            /\ fn.message = <<"konnichiwa">> =>
                  /\ fn.response.intent.intent_type = "greeting"
                  /\ fn.response.intent.confidence = 9

\* A processed question turn that named a brand and ran no search
C16_Witness ==
    /\ fn.op = "turn" /\ fn.stage = "processed"
    /\ fn.message = <<"Nike", "desuka">>
    /\ fn.response.intent.intent_type = "question"
    /\ ~fn.searched
    /\ fn.response.requires_action = FALSE
    /\ fn.preferences.brands = {"Nike"}

(***************************************************************************)
(* ResultAggregatorAgent.generate_response on search results and           *)
(* preferences: the lists are the selections of the catalog, in catalog    *)
(* and in reverse order, with total_count their length as search_products  *)
(* reports it.                                                             *)
(***************************************************************************)

AggPreferences ==
    {[EmptyPreferences EXCEPT !.price_range = p, !.quality = q,
                              !.brands = b, !.categories = c] :
        p \in {None, "low", "high"}, q \in {None, "high"},
        b \in {{}, {"Nike"}}, c \in {{}, {"clothing"}}}

AggSearchResults ==
    {[products |-> l, total_count |-> Len(l), query |-> ""] : l \in RankProductLists}

InitAgg ==
    /\ StoreIdle
    /\ fn \in [op : {"agg"}, stage : {"input"}, search_results : AggSearchResults,
               preferences : AggPreferences, t : Templates]

GenerateResponse ==
    /\ fn.op = "agg" /\ fn.stage = "input"
    /\ fn' = [op |-> "agg", stage |-> "answered",
              search_results |-> fn.search_results,
              preferences |-> fn.preferences,
              response |-> AggregatorResponse(fn.search_results, fn.preferences, fn.t)]
    /\ UNCHANGED <<sessions, pc, req, running, now>>

NextAgg == GenerateResponse

SpecAgg == InitAgg /\ [][NextAgg]_vars

Answered == fn.op = "agg" /\ fn.stage = "answered"

ManyPools == {"multiple_results", "price_focus", "quality_focus"}

\* C17: the branch of the reply depends on total_count alone: 0 gives the
\* no-results text, 1 the single-result text, 2 or more the many-results
\* text, whatever the products and the preferences are.
C17_BranchByCardinality ==
    Answered =>
        LET total_count == fn.search_results.total_count
            pool == fn.response.message.pool
        IN  /\ total_count = 0 <=> pool = "no_results"
            /\ total_count = 1 <=> pool = "single_result"
            /\ total_count >= 2 <=> pool \in ManyPools

NikeOnly == [EmptyPreferences EXCEPT !.brands = {"Nike"}]

\* The search that matches only the Nike item, answered in the single branch
C17_Witness ==
    /\ Answered
    /\ fn.search_results.products = search_products(NikeOnly, NikeOnly).products
    /\ fn.search_results.total_count = 1
    /\ fn.response.message.pool = "single_result"
    /\ fn.response.message.items = <<"clothing_001">>

\* C18: in the many-results text the opening is drawn from the price-focused
\* pool when price_range is low, also when quality is high as well; otherwise
\* from the quality-focused pool when quality is high; otherwise from the
\* generic pool.
C18_PoolByPreference ==
    (Answered /\ fn.search_results.total_count >= 2) =>
        LET price_range == fn.preferences.price_range
            quality == fn.preferences.quality
            pool == fn.response.message.pool
        IN  /\ price_range = "low" => pool = "price_focus"
            /\ (price_range # "low" /\ quality = "high") => pool = "quality_focus"
            /\ (price_range # "low" /\ quality # "high") => pool = "multiple_results"

\* Several results for a user who wants both a low price and high quality
C18_Witness ==
    /\ Answered
    /\ fn.search_results.total_count >= 2
    /\ fn.preferences.price_range = "low"
    /\ fn.preferences.quality = "high"
    /\ fn.response.message.pool = "price_focus"

\* C19: the no-results text gets at most one added sentence: the price
\* sentence when price_range is low, else the brand sentence when brands is
\* not empty, else the category sentence when categories is not empty, else
\* none.
C19_OneClauseByPriority ==
    (Answered /\ fn.search_results.total_count = 0) =>
        LET preferences == fn.preferences
            clauses == fn.response.message.clauses
        IN  /\ Len(clauses) <= 1
            /\ preferences.price_range = "low" => clauses = <<"raise_price">>
            /\ (preferences.price_range # "low" /\ preferences.brands # {})
                  => clauses = <<"other_brands">>
            /\ (preferences.price_range # "low" /\ preferences.brands = {}
                /\ preferences.categories # {})
                  => clauses = <<"other_categories">>
            /\ (preferences.price_range # "low" /\ preferences.brands = {}
                /\ preferences.categories = {})
                  => clauses = <<>>

\* No result for a user with a low price range, a brand and a category
C19_Witness ==
    /\ Answered
    /\ fn.search_results.total_count = 0
    /\ fn.preferences.price_range = "low"
    /\ fn.preferences.brands = {"Nike"}
    /\ fn.preferences.categories = {"clothing"}
    /\ fn.response.message.clauses = <<"raise_price">>

\* C20: the many-results text lists the first min(3, number of products)
\* products, entry i being the i-th product of the ranked list, and ends
\* with the overflow line exactly when total_count > 3, which then says
\* total_count - 3.
C20_TopThreeAndOverflow ==
    (Answered /\ fn.search_results.total_count >= 2) =>
        LET products == fn.search_results.products
            total_count == fn.search_results.total_count
            text == fn.response.message
            shown == IF Len(products) < 3 THEN Len(products) ELSE 3
        IN  /\ Len(text.items) = shown
            /\ \A i \in 1..shown : text.items[i] = products[i].id
            /\ text.overflow # <<>> <=> total_count > 3
            /\ total_count > 3 => text.overflow = <<total_count - 3>>

\* Five results: three listed, two announced
C20_Witness ==
    /\ Answered
    /\ fn.search_results.total_count = 5
    /\ Len(fn.response.message.items) = 3
    /\ fn.response.message.items[1] = fn.search_results.products[1].id
    /\ fn.response.message.overflow = <<2>>

(***************************************************************************)
(* Session expiry: the clock advances, sessions are created and fetched.   *)
(***************************************************************************)

\* The clock is followed up to this hour
MaxClock == 50

\* Hours that pass between two calls: two of them make the timeout or an
\* hour more, one makes an hour more
TickHours == {12, 13, 25}

Tick ==
    /\ \E hours \in TickHours :
          /\ now + hours <= MaxClock
          /\ now' = now + hours
    /\ UNCHANGED <<sessions, pc, req, running, fn>>

\* create_session_data(session_id)
CreateSessionData(session_id) ==
    /\ sessions[session_id] = NoSession
    /\ sessions' = [sessions EXCEPT ![session_id] = NewSession(now)]
    /\ UNCHANGED <<pc, req, running, now, fn>>

\* get_session(session_id); fn records the stored entry before the call, the
\* value returned (NoSession for None) and the stored entry after the call
GetSession(session_id) ==
    /\ sessions' = get_session(sessions, session_id, now)
    /\ fn' = [op |-> "get_session", session_id |-> session_id, t |-> now,
              before |-> sessions[session_id],
              result |-> get_session(sessions, session_id, now)[session_id],
              after |-> get_session(sessions, session_id, now)[session_id]]
    /\ UNCHANGED <<pc, req, running, now>>

NextExpiry ==
    \/ Tick
    \/ \E session_id \in SessionIds :
          \/ CreateSessionData(session_id)
          \/ GetSession(session_id)

SpecExpiry == Init /\ [][NextExpiry]_vars

\* C21: get_session on a stored session whose last access is more than
\* session_timeout ago deletes it and returns None; on any other stored
\* session it returns the session with last_accessed set to the time of the
\* call and keeps it stored.  A session returned is never an expired one, and
\* a session fetched within session_timeout of its last access stays.
C21_NeverReturnsExpired ==
    fn.op = "get_session" =>
        /\ fn.before = NoSession => (fn.result = NoSession /\ fn.after = NoSession)
        /\ (fn.before # NoSession /\ fn.t - fn.before.last_accessed > session_timeout)
              => (fn.result = NoSession /\ fn.after = NoSession)
        /\ (fn.before # NoSession /\ fn.t - fn.before.last_accessed <= session_timeout)
              => /\ fn.result = [fn.before EXCEPT !.last_accessed = fn.t]
                 /\ fn.after = fn.result
        /\ fn.result # NoSession => fn.t - fn.result.last_accessed <= session_timeout

\* A session fetched exactly session_timeout after its last access
C21_Witness ==
    /\ fn.op = "get_session"
    /\ fn.before # NoSession
    /\ fn.t - fn.before.last_accessed = session_timeout
    /\ fn.result # NoSession
    /\ fn.result.last_accessed = fn.t

\* A session fetched an hour after the timeout
C21_WitnessExpired ==
    /\ fn.op = "get_session"
    /\ fn.before # NoSession
    /\ fn.t - fn.before.last_accessed = session_timeout + 1
    /\ fn.result = NoSession

(***************************************************************************)
(* Favorites: SessionManager.add_favorite / remove_favorite and the        *)
(* /api/favorites endpoints of main.py                                     *)
(***************************************************************************)

\* product_data as a client sends it: two different dicts with the id p1
FavoriteProducts ==
    {[id |-> "p1", name |-> "sneaker"], [id |-> "p1", name |-> "sneaker-white"],
     [id |-> "p2", name |-> "jacket"]}

FavoriteIds == {product.id : product \in FavoriteProducts}

\* A duplicate test on the whole product dict.
HasFavoriteEqual(favorites, product_data) ==
    \E i \in 1..Len(favorites) : favorites[i] = product_data

\* any(fav.get("id") == product_id for fav in favorites)
HasFavorite(favorites, product_data) ==
    \E i \in 1..Len(favorites) : favorites[i].id = product_data.id

\* [fav for fav in favorites if fav.get("id") != product_id]
WithoutFavorite(favorites, product_id) ==
    SelectSeq(favorites, LAMBDA fav : fav.id # product_id)

\* SessionManager.add_favorite: the store after the call
add_favorite(store, session_id, product_data, t) ==
    LET fetched == get_session(store, session_id, t)
    IN  IF fetched[session_id] = NoSession THEN fetched
        ELSE IF ~HasFavorite(fetched[session_id].favorites, product_data)
        THEN [fetched EXCEPT ![session_id].favorites = Append(@, product_data),
                             ![session_id].last_accessed = t]
        ELSE fetched

\* SessionManager.remove_favorite: the store after the call
remove_favorite(store, session_id, product_id, t) ==
    LET fetched == get_session(store, session_id, t)
    IN  IF fetched[session_id] = NoSession THEN fetched
        ELSE [fetched EXCEPT ![session_id].favorites = WithoutFavorite(@, product_id),
                             ![session_id].last_accessed = t]

\* The session ids that are UUID strings (create_session makes such ids; a
\* chat request may bring any string)
UuidSessionIds == {"s1"}

\* utils.helpers.validate_session_id returns a bool, written "True" / "False"
validate_session_id(session_id) ==
    IF session_id \in UuidSessionIds THEN "True" ELSE "False"

\* A dependency that hands the handler the session id of the request.
DependsSessionIdGiven(session_id) == session_id

\* session_id: str = Depends(validate_session_id): the handler's session_id
\* is the value the dependency returns
DependsSessionId(session_id) == validate_session_id(session_id)

\* get_session for any key: `if session_id not in self.sessions: return None`
get_session_for(store, key, t) ==
    IF key \in DOMAIN store THEN get_session(store, key, t) ELSE store

Fetched(store, key, t) ==
    IF key \in DOMAIN store THEN get_session(store, key, t)[key] ELSE NoSession

\* POST /api/favorites/add: the store after the call and the answer
add_to_favorites(store, session_id_query, product_data, t) ==
    LET session_id == DependsSessionId(session_id_query)
        fetched == get_session_for(store, session_id, t)
    IN  IF Fetched(store, session_id, t) = NoSession
        THEN [store |-> fetched, status |-> 404]
        ELSE [store |-> IF ~HasFavorite(fetched[session_id].favorites, product_data)
                        THEN [fetched EXCEPT
                                 ![session_id].favorites = Append(@, product_data),
                                 ![session_id].last_accessed = t]
                        ELSE fetched,
              status |-> 200, product_id |-> product_data.id]

\* GET /api/favorites: the store after the call and the answer
get_favorites(store, session_id_query, t) ==
    LET session_id == DependsSessionId(session_id_query)
        fetched == get_session_for(store, session_id, t)
    IN  IF Fetched(store, session_id, t) = NoSession
        THEN [store |-> fetched, status |-> 404]
        ELSE [store |-> fetched, status |-> 200,
              favorites |-> fetched[session_id].favorites,
              count |-> Len(fetched[session_id].favorites)]

AddFavorite(session_id) ==
    /\ \E product_data \in FavoriteProducts :
          /\ sessions' = add_favorite(sessions, session_id, product_data, now)
          /\ fn' = [op |-> "add_favorite", session_id |-> session_id,
                    product_data |-> product_data,
                    before |-> sessions[session_id],
                    after |-> add_favorite(sessions, session_id, product_data,
                                           now)[session_id]]
    /\ UNCHANGED <<pc, req, running, now>>

RemoveFavorite(session_id) ==
    /\ \E product_id \in FavoriteIds :
          /\ sessions' = remove_favorite(sessions, session_id, product_id, now)
          /\ fn' = [op |-> "remove_favorite", session_id |-> session_id,
                    product_id |-> product_id,
                    before |-> sessions[session_id],
                    after |-> remove_favorite(sessions, session_id, product_id,
                                              now)[session_id]]
    /\ UNCHANGED <<pc, req, running, now>>

\* A client calls POST /api/favorites/add?session_id=...; following holds the
\* answer GET /api/favorites gives next for the same session id
AddToFavorites(session_id) ==
    /\ \E product_data \in FavoriteProducts :
          LET added == add_to_favorites(sessions, session_id, product_data, now)
          IN  /\ sessions' = added.store
              /\ fn' = [op |-> "add_to_favorites", session_id |-> session_id,
                        product_data |-> product_data,
                        before |-> sessions[session_id],
                        status |-> added.status,
                        after |-> added.store[session_id],
                        following |-> get_favorites(added.store, session_id, now)]
    /\ UNCHANGED <<pc, req, running, now>>

GetFavorites(session_id) ==
    /\ LET got == get_favorites(sessions, session_id, now)
       IN  /\ sessions' = got.store
           /\ fn' = [op |-> "get_favorites", session_id |-> session_id,
                     before |-> sessions[session_id],
                     status |-> got.status]
    /\ UNCHANGED <<pc, req, running, now>>

NextFavorites ==
    \E session_id \in SessionIds :
        \/ CreateSessionData(session_id)
        \/ AddFavorite(session_id)
        \/ RemoveFavorite(session_id)
        \/ AddToFavorites(session_id)
        \/ GetFavorites(session_id)

SpecFavorites == Init /\ [][NextFavorites]_vars

\* C22: the favorites of a session never hold two entries with the same
\* product id, and add_favorite with an id that is already a favorite leaves
\* the favorites as they are.
C22_FavoritesUniqueById ==
    /\ \A session_id \in SessionIds :
          sessions[session_id] # NoSession =>
              LET favorites == sessions[session_id].favorites
              IN  \A i, j \in 1..Len(favorites) :
                      favorites[i].id = favorites[j].id => i = j
    /\ (fn.op = "add_favorite" /\ fn.before # NoSession
        /\ \E i \in 1..Len(fn.before.favorites) :
              fn.before.favorites[i].id = fn.product_data.id)
          => fn.after.favorites = fn.before.favorites

\* add_favorite with another dict of the id p1, which is a favorite already,
\* after a favorite was removed and one added again
C22_Witness ==
    /\ fn.op = "add_favorite"
    /\ fn.before # NoSession
    /\ fn.product_data = [id |-> "p1", name |-> "sneaker-white"]
    /\ fn.before.favorites = <<[id |-> "p2", name |-> "jacket"],
                               [id |-> "p1", name |-> "sneaker"]>>
    /\ fn.after.favorites = fn.before.favorites

\* C29: POST /api/favorites/add for a stored, unexpired session and a product
\* whose id is not a favorite yet answers 200 and stores the product, and the
\* GET /api/favorites that follows returns it; 404 is answered only when the
\* session is missing.
C29_AddFavoriteStores ==
    fn.op = "add_to_favorites" =>
        /\ fn.status = 404 => fn.before = NoSession
        /\ (fn.before # NoSession
            /\ \A i \in 1..Len(fn.before.favorites) :
                  fn.before.favorites[i].id # fn.product_data.id)
              => /\ fn.status = 200
                 /\ fn.after.favorites = Append(fn.before.favorites, fn.product_data)
                 /\ fn.following.status = 200
                 /\ fn.following.favorites = fn.after.favorites

(***************************************************************************)
(* Chat requests with blank messages among the others                      *)
(***************************************************************************)

\* The empty message, two messages of whitespace only, and Nike / こんにちは
BlankMessages == {<<>>, <<" ">>, <<" ", " ">>}

ValidationMessages == BlankMessages \cup {<<"Nike">>, <<"konnichiwa">>}

NextBlank ==
    \E r \in Requests :
        \/ ArriveWith(r, ValidationMessages, SessionIds \cup {""})
        \/ ChatStart(r)
        \/ ChatProcess(r)
        \/ ChatReply(r)
        \/ ChatFault(r)

SpecBlank == Init /\ [][NextBlank]_vars

\* C23: the handler of a request whose message is empty or whitespace only
\* answers with the validation error as its first step, without a reply,
\* and that step creates no session and changes no stored session; the
\* request goes no further afterwards.
C23_BlankRejected ==
    [][\A r \in Requests :
          /\ (pc[r] = "pending" /\ pc'[r] # "pending" /\ strip(req[r].message) = <<>>)
                => /\ pc'[r] = "rejected"
                   /\ req'[r].response = Unbound
                   /\ sessions' = sessions
          /\ pc[r] = "rejected" => pc'[r] = "rejected"]_vars

\* A whitespace message for a session that holds a finished turn, rejected
C23_Witness ==
    \E r \in Requests :
        /\ pc[r] = "rejected"
        /\ req[r].message = <<" ", " ">>
        /\ req[r].sessionId = "s1"
        /\ sessions["s1"] # NoSession
        /\ Len(sessions["s1"].conversation_history) = 2
        /\ sessions["s2"] = NoSession

(***************************************************************************)
(* The four pipeline stages with an internal fault: `fault` tells whether  *)
(* an exception was raised inside the stage's try block.                   *)
(***************************************************************************)

\* The except branch of analyze_intent
IntentFallback ==
    [requires_product_search |-> FALSE, intent_type |-> "unknown",
     confidence |-> 0, keywords |-> {}, entities |-> EmptyDict]

\* The except branch of ResultAggregatorAgent.generate_response
\* 申し訳ございません。エラーが発生しました。
AggregatorFallback ==
    [message |-> [pool |-> "apology"], products |-> <<>>, total_count |-> 0,
     suggestions |-> <<>>, has_products |-> FALSE]

AnalyzeIntentStage(message, fault) ==
    IF fault THEN IntentFallback ELSE analyze_intent(message)

\* extract_preferences: the assignment to session_data["user_preferences"]
\* is the last statement of the try block, so a fault leaves the stored
\* preferences as they were, and the except branch returns them.
ExtractPreferencesStage(message, existing_preferences, fault) ==
    IF fault THEN existing_preferences
    ELSE extract_preferences(message, existing_preferences)

SearchStage(preferences, user_preferences, fault) ==
    IF fault THEN SearchFallback(preferences)
    ELSE search_products(preferences, user_preferences)

GenerateResponseStage(search_results, preferences, t, fault) ==
    IF fault THEN AggregatorFallback
    ELSE AggregatorResponse(search_results, preferences, t)

StageNames == {"intent", "preferences", "search", "response"}

StageMessages == {<<w>> : w \in IntentWords}

InitStage ==
    /\ StoreIdle
    /\ fn \in [op : {"stage"}, stage : StageNames, state : {"input"},
               message : StageMessages, preferences : TurnPreferences,
               t : Templates, fault : BOOLEAN]

Staged(result) ==
    fn' = [op |-> "stage", stage |-> fn.stage, state |-> "returned",
           message |-> fn.message, preferences |-> fn.preferences,
           fault |-> fn.fault, result |-> result]

RunIntent ==
    /\ fn.op = "stage" /\ fn.state = "input" /\ fn.stage = "intent"
    /\ Staged(AnalyzeIntentStage(fn.message, fn.fault))
    /\ UNCHANGED <<sessions, pc, req, running, now>>

RunPreferences ==
    /\ fn.op = "stage" /\ fn.state = "input" /\ fn.stage = "preferences"
    /\ Staged(ExtractPreferencesStage(fn.message, fn.preferences, fn.fault))
    /\ UNCHANGED <<sessions, pc, req, running, now>>

RunSearch ==
    /\ fn.op = "stage" /\ fn.state = "input" /\ fn.stage = "search"
    /\ Staged(SearchStage(fn.preferences, fn.preferences, fn.fault))
    /\ UNCHANGED <<sessions, pc, req, running, now>>

RunResponse ==
    /\ fn.op = "stage" /\ fn.state = "input" /\ fn.stage = "response"
    /\ Staged(GenerateResponseStage(search_products(fn.preferences, fn.preferences),
                                    fn.preferences, fn.t, fn.fault))
    /\ UNCHANGED <<sessions, pc, req, running, now>>

NextStage == RunIntent \/ RunPreferences \/ RunSearch \/ RunResponse

SpecStage == InitStage /\ [][NextStage]_vars

\* C24: a stage in which a fault occurred returns its fallback: the intent
\* classifier the unknown intent with confidence 0.0, the preference
\* extractor empty preferences, the search an empty result with total_count
\* 0, the response synthesizer the apology.
C24_FaultFallbacks ==
    (fn.op = "stage" /\ fn.state = "returned" /\ fn.fault) =>
        /\ fn.stage = "intent" =>
              (fn.result.intent_type = "unknown" /\ fn.result.confidence = 0)
        /\ fn.stage = "preferences" => fn.result = EmptyPreferences
        /\ fn.stage = "search" =>
              (fn.result.products = <<>> /\ fn.result.total_count = 0)
        /\ fn.stage = "response" => fn.result.message.pool = "apology"

(***************************************************************************)
(* Empty preference fields and the filter (on SpecFilter)                  *)
(***************************************************************************)

\* What the field `key` of the preferences asks of a product; an empty or
\* null field asks nothing.
Meets(p, key, preferences) ==
    CASE key = "price_range" ->
            preferences.price_range = None \/ PriceWithin(p.price, preferences.price_range)
      [] key = "brands" ->
            preferences.brands = {} \/ p.brand \in preferences.brands
      [] key = "categories" ->
            preferences.categories = {} \/ p.category \in preferences.categories
      [] key = "features" ->
            preferences.features = {} \/ preferences.features \cap p.features # {}
      [] key = "excluded_items" ->
            \A excluded \in preferences.excluded_items : ~TextContains(p.name, excluded)

FilterKeys == {"price_range", "brands", "categories", "features", "excluded_items"}

AllEmpty(preferences) ==
    /\ preferences.price_range = None
    /\ \A key \in FilterKeys \ {"price_range"} : preferences[key] = {}

\* C25: with an empty query and preferences whose fields are all empty or
\* null the filter returns its input list as it is; in general it keeps, in
\* input order, the products that match the query and meet every field that
\* is set, so a field that is empty or null removes no product.
C25_EmptyFieldsKeepAll ==
    (fn.op = "filter" /\ fn.stage = "filtered") =>
        /\ (fn.query = "" /\ AllEmpty(fn.prefs)) => fn.with_prefs = fn.products
        /\ fn.with_prefs =
              SelectSeq(fn.products,
                        LAMBDA p : /\ fn.query = "" \/ QueryMatches(p, fn.query)
                                   /\ \A key \in FilterKeys : Meets(p, key, fn.prefs))

\* The whole catalog filtered with nothing set
C25_Witness ==
    /\ fn.op = "filter" /\ fn.stage = "filtered"
    /\ fn.query = "" /\ AllEmpty(fn.prefs)
    /\ fn.products = mock_products
    /\ fn.with_prefs = mock_products

\* Only the price tier set: the empty brands, categories, features and
\* excluded_items remove nothing
C25_WitnessOneField ==
    /\ fn.op = "filter" /\ fn.stage = "filtered"
    /\ fn.query = "" /\ fn.prefs.price_range = "low"
    /\ \A key \in FilterKeys \ {"price_range"} : fn.prefs[key] = {}
    /\ fn.with_prefs = _filter_by_price_range(fn.products, "low")
    /\ fn.with_prefs # <<>> /\ fn.with_prefs # fn.products

(***************************************************************************)
(* _filter_by_price_range as a function of the products and the tier       *)
(***************************************************************************)

PriceTiers == {"very_low", "low", "medium", "high", "very_high"}

\* Prices at, just under and just over each ceiling, and a very large one
PriceSamples ==
    {0, 4999, 5000, 5001, 15000, 15001, 50000, 50001, 100000, 100001, 1000000000}

Priced(price) == [mock_products[1] EXCEPT !.price = price]

PricedLists ==
    {<<>>} \cup {<<Priced(a)>> : a \in PriceSamples}
           \cup {<<Priced(a), Priced(b)>> : a, b \in PriceSamples}

InitPrice ==
    /\ StoreIdle
    /\ fn \in [op : {"price"}, stage : {"input"}, products : PricedLists,
               price_range : PriceTiers]

\* kept is the result for the tier drawn, by_tier the result for each tier
FilterByPrice ==
    /\ fn.op = "price" /\ fn.stage = "input"
    /\ fn' = [op |-> "price", stage |-> "filtered", products |-> fn.products,
              price_range |-> fn.price_range,
              kept |-> _filter_by_price_range(fn.products, fn.price_range),
              by_tier |-> [tier \in PriceTiers |->
                              _filter_by_price_range(fn.products, tier)]]
    /\ UNCHANGED <<sessions, pc, req, running, now>>

NextPrice == FilterByPrice

SpecPrice == InitPrice /\ [][NextPrice]_vars

\* C30: the price filter keeps, in order, exactly the products priced at or
\* under the ceiling of the tier (5000, 15000, 50000, 100000 for very_low,
\* low, medium, high) and every product for very_high; the result for a tier
\* is contained in the result for every tier above it.
C30_PriceCeilings ==
    (fn.op = "price" /\ fn.stage = "filtered") =>
        /\ fn.price_range = "very_low" =>
              fn.kept = SelectSeq(fn.products, LAMBDA p : p.price <= 5000)
        /\ fn.price_range = "low" =>
              fn.kept = SelectSeq(fn.products, LAMBDA p : p.price <= 15000)
        /\ fn.price_range = "medium" =>
              fn.kept = SelectSeq(fn.products, LAMBDA p : p.price <= 50000)
        /\ fn.price_range = "high" =>
              fn.kept = SelectSeq(fn.products, LAMBDA p : p.price <= 100000)
        /\ fn.price_range = "very_high" => fn.kept = fn.products
        /\ \A lower_tier, higher_tier \in PriceTiers :
              TierRank(lower_tier) <= TierRank(higher_tier) =>
                  Range(fn.by_tier[lower_tier]) \subseteq Range(fn.by_tier[higher_tier])

\* A product priced at the ceiling of medium is kept, one priced a yen more
\* is dropped and comes back with the tier above
C30_Witness ==
    /\ fn.op = "price" /\ fn.stage = "filtered"
    /\ fn.price_range = "medium"
    /\ fn.products = <<Priced(50001), Priced(50000)>>
    /\ fn.kept = <<Priced(50000)>>
    /\ fn.by_tier["low"] = <<>>
    /\ fn.by_tier["high"] = fn.products

(***************************************************************************)
(* Two runs of sort_products_by_relevance.  extract_keywords returns       *)
(* list(set(keywords)), whose order depends on the string hashing of the   *)
(* run (PYTHONHASHSEED); hash_seed stands for it.                          *)
(***************************************************************************)

HashSeeds == 0..3

\* list(set(keywords)) in a run: some enumeration of the set, rotated by the
\* hash seed
KeywordList(keywords, hash_seed) ==
    LET n == Cardinality(keywords)
        base == CHOOSE s \in [1..n -> keywords] :
                    \A i, j \in 1..n : s[i] = s[j] => i = j
    IN  [i \in 1..n |-> base[((i - 1 + hash_seed) % n) + 1]]

\* extract_keywords as the list it returns in a run
extract_keywords_list(text, hash_seed) ==
    KeywordList(extract_keywords(text), hash_seed)

\* A conversion that keeps the first element of the list only.
ListHeadOnly(list) == IF list = <<>> THEN {} ELSE {list[1]}

\* set(extract_keywords(text))
ListToSet(list) == Range(list)

\* calculate_similarity in a run
calculate_similarity_seeded(text1, text2, hash_seed) ==
    LET keywords1 == ListToSet(extract_keywords_list(text1, hash_seed))
        keywords2 == ListToSet(extract_keywords_list(text2, hash_seed))
    IN  IF text1 = <<>> \/ text2 = <<>> \/ keywords1 = {} \/ keywords2 = {}
        THEN <<0, 1>>
        ELSE <<Cardinality(keywords1 \cap keywords2),
               Cardinality(keywords1 \cup keywords2)>>

\* The score of a product in a run, times 100, as a fraction <<n, d>>
RelevanceScoreSeeded(product, query, hash_seed) ==
    LET q  == IF query = "" THEN <<>> ELSE <<query>>
        jn == calculate_similarity_seeded(q, product.name, hash_seed)
        jd == calculate_similarity_seeded(q, product.description, hash_seed)
        jc == calculate_similarity_seeded(q, <<product.category>>, hash_seed)
        d  == jn[2] * jd[2] * jc[2]
    IN  << 40 * jn[1] * jd[2] * jc[2] + 30 * jd[1] * jn[2] * jc[2]
           + 20 * jc[1] * jn[2] * jd[2] + product.rating * d, d >>

\* sort_products_by_relevance in a run
sort_products_by_relevance_seeded(products, query, hash_seed) ==
    IF products = <<>> \/ query = ""
    THEN products
    ELSE LET n == Len(products)
             score(i) == RelevanceScoreSeeded(products[i], query, hash_seed)
             before(j, i) == \/ ScoreGreater(score(j), score(i))
                             \/ ScoreEqual(score(j), score(i)) /\ j < i
             rank(i) == 1 + Cardinality({j \in 1..n : before(j, i)})
         IN  [k \in 1..n |-> products[CHOOSE i \in 1..n : rank(i) = k]]

\* A product that matches the query "books" in name, description and
\* category with the rating 5.0, and one that matches nothing with rating 0
FullMatch ==
    [mock_products[7] EXCEPT !.id = "full", !.name = <<"books">>,
                             !.description = <<"books">>, !.rating = 50]

NoMatch ==
    [mock_products[8] EXCEPT !.id = "none", !.rating = 0]

RunProductLists ==
    {mock_products, Reverse(mock_products),
     <<mock_products[1], mock_products[5]>>,
     <<mock_products[5], mock_products[3], mock_products[1]>>,
     <<NoMatch, FullMatch>>, <<FullMatch, mock_products[7], NoMatch>>,
     <<NoMatch, mock_products[5], FullMatch, mock_products[3]>>}

RunQueries == {"", "Air", "Nike", "books", "keiryou", "xyz-nonexistent"}

InitRuns ==
    /\ StoreIdle
    /\ fn \in [op : {"runs"}, stage : {"input"},
               products : RunProductLists, query : RunQueries]

RunOf(products, query, hash_seed) ==
    [hash_seed |-> hash_seed,
     ranked |-> sort_products_by_relevance_seeded(products, query, hash_seed),
     scores |-> [i \in 1..Len(products) |->
                    RelevanceScoreSeeded(products[i], query, hash_seed)]]

FirstRun ==
    /\ fn.op = "runs" /\ fn.stage = "input"
    /\ \E hash_seed \in HashSeeds :
          fn' = [op |-> "runs", stage |-> "once", products |-> fn.products,
                 query |-> fn.query,
                 first |-> RunOf(fn.products, fn.query, hash_seed)]
    /\ UNCHANGED <<sessions, pc, req, running, now>>

SecondRun ==
    /\ fn.op = "runs" /\ fn.stage = "once"
    /\ \E hash_seed \in HashSeeds :
          fn' = [op |-> "runs", stage |-> "twice", products |-> fn.products,
                 query |-> fn.query, first |-> fn.first,
                 second |-> RunOf(fn.products, fn.query, hash_seed)]
    /\ UNCHANGED <<sessions, pc, req, running, now>>

NextRuns == FirstRun \/ SecondRun

SpecRuns == InitRuns /\ [][NextRuns]_vars

\* C26: two runs of the ranking on the same products and query return the
\* same order, and the score of every product with a rating from 0 to 5 is
\* at least 0 and at most 1.4.
C26_DeterministicAndBounded ==
    (fn.op = "runs" /\ fn.stage = "twice") =>
        /\ fn.first.ranked = fn.second.ranked
        /\ \A i \in 1..Len(fn.products) :
              (fn.products[i].rating >= 0 /\ fn.products[i].rating <= 50) =>
                  \A run \in {fn.first, fn.second} :
                      /\ run.scores[i][2] > 0
                      /\ run.scores[i][1] >= 0
                      /\ run.scores[i][1] <= 140 * run.scores[i][2]

\* Two runs with different hash seeds on a list the query reorders, in which
\* one product reaches the score 1.4 and one the score 0
C26_Witness ==
    /\ fn.op = "runs" /\ fn.stage = "twice"
    /\ fn.first.hash_seed # fn.second.hash_seed
    /\ fn.query = "books"
    /\ fn.products = <<NoMatch, FullMatch>>
    /\ fn.first.ranked = <<FullMatch, NoMatch>>
    /\ fn.first.scores[2] = <<140, 1>>
    /\ fn.first.scores[1][1] = 0

(***************************************************************************)
(* Turns on different sessions (on Spec)                                   *)
(***************************************************************************)

\* C27: a step of the chat handler for one session leaves the stored data of
\* every other session (conversation_history, user_preferences, favorites)
\* as it is, and the reply it computes is determined by the message, the
\* preferences of its own session and the template drawn.
C27_SessionsIndependent ==
    [][\A r \in Requests :
          /\ (pc[r] \in {"pending", "process", "reply"} /\ pc'[r] # pc[r])
                => \A other \in SessionIds \ {req'[r].session_id} :
                       sessions'[other] = sessions[other]
          /\ (pc[r] = "process" /\ pc'[r] = "reply")
                => \E t \in Templates :
                       req'[r].response =
                           process_chat_message(
                               req[r].message,
                               extract_preferences(
                                   req[r].message,
                                   sessions[req[r].session_id].user_preferences),
                               t)]_vars

\* Two finished turns on two sessions, each session holding its own history
\* and its own preferences
C27_Witness ==
    /\ pc["r1"] = "done" /\ pc["r2"] = "done"
    /\ req["r1"].session_id # req["r2"].session_id
    /\ req["r1"].message = <<"Nike">> /\ req["r2"].message = <<"yasui", "fuku">>
    /\ \A r \in Requests :
          /\ Len(sessions[req[r].session_id].conversation_history) = 2
          /\ sessions[req[r].session_id].conversation_history[1].content = req[r].message
    /\ sessions[req["r1"].session_id].user_preferences.brands = {"Nike"}
    /\ sessions[req["r2"].session_id].user_preferences.brands = {}
    /\ sessions[req["r2"].session_id].user_preferences.price_range = "low"

(***************************************************************************)
(* Chat turns while the clock advances: a session may expire between two   *)
(* turns that name it.                                                     *)
(***************************************************************************)

AppendMessages == {<<"Nike">>, <<"konnichiwa">>}

\* Time passes after the first request was answered and before the second
\* arrives (a handler holds the event loop and takes no time of its own)
TickBetweenTurns ==
    /\ pc["r1"] \in {"done", "failed"}
    /\ pc["r2"] = "idle"
    /\ Tick

NextAppend ==
    \/ TickBetweenTurns
    \/ \E r \in Requests :
          \/ ArriveWith(r, AppendMessages, {"s1", ""})
          \/ ChatStart(r)
          \/ ChatProcess(r)
          \/ ChatReply(r)
          \/ ChatFault(r)

SpecAppend == Init /\ [][NextAppend]_vars

\* C28: a turn that succeeds appends two messages to the history of its
\* session: first the user message, and at the end of the turn the assistant
\* message whose content is the message of the reply.  The messages the
\* session held when the turn fetched it stay as they are, in their order,
\* in front of the two.  (A session that has expired is deleted by the fetch;
\* the turn then starts the history of a new session.)
C28_TurnAppendsTwo ==
    [][\A r \in Requests :
          /\ (pc[r] = "pending" /\ pc'[r] = "process")
                => LET session_id == req'[r].session_id
                       held == IF req[r].sessionId # ""
                                  /\ sessions[session_id] # NoSession
                                  /\ now - sessions[session_id].last_accessed
                                        <= session_timeout
                               THEN sessions[session_id].conversation_history
                               ELSE <<>>
                   IN  sessions'[session_id].conversation_history =
                           held \o <<[role |-> "user", content |-> req[r].message]>>
          /\ (pc[r] = "process" /\ pc'[r] = "reply")
                => sessions'[req[r].session_id].conversation_history =
                       sessions[req[r].session_id].conversation_history
          /\ (pc[r] = "reply" /\ pc'[r] = "done")
                => LET session_id == req[r].session_id
                       before == sessions[session_id].conversation_history
                       after == sessions'[session_id].conversation_history
                   IN  /\ after = before \o
                              <<[role |-> "assistant",
                                 content |-> req'[r].response.message]>>
                       /\ before[Len(before)] =
                              [role |-> "user", content |-> req[r].message]
                       /\ SubSeq(before, 1, Len(before) - 1) =
                              req[r].fetched.conversation_history]_vars

\* A second successful turn on a session that holds the two messages of the
\* first
C28_Witness ==
    /\ pc["r1"] = "done" /\ pc["r2"] = "done"
    /\ req["r1"].session_id = "s1" /\ req["r2"].session_id = "s1"
    /\ now <= session_timeout
    /\ Len(sessions["s1"].conversation_history) = 4
    /\ sessions["s1"].conversation_history[1].role = "user"
    /\ sessions["s1"].conversation_history[2].role = "assistant"
    /\ sessions["s1"].conversation_history[3].role = "user"
    /\ sessions["s1"].conversation_history[4].content
          \in {req[r].response.message : r \in Requests}

====
